---- MODULE Spec2Model ----
(***************************************************************************)
(* Verification model of summation-check: the metadata matching engine     *)
(* (match_metadata.py), the watcher's new-download pipeline and the move   *)
(* debounce (file_monitor.py).                                             *)
(*                                                                         *)
(* Strings are sequences of one-character strings.  Time is counted in     *)
(* ticks of half a second.                                                 *)
(***************************************************************************)
EXTENDS Integers, Sequences, FiniteSets, TLC

(***************************************************************************)
(* Bounds of the model.                                                    *)
(***************************************************************************)
MaxRecords == 2
NumThreads == 3
NumMoveThreads == 2
MaxNotifs == 4
MaxArrivals == 1
MaxTime == 6
MaxMoves == 3
MaxModifies == 2

(***************************************************************************)
(* Characters.  "e_acute" is a precomposed accented letter (U+00E9), which *)
(* NFKD decomposes into "e" and the combining mark "comb" (U+0301); "cjk"  *)
(* is a character with no ASCII decomposition, and so is "d_stroke", the   *)
(* letter d with stroke (U+0111), which NFKD leaves as it is.              *)
(***************************************************************************)
Uppers == <<"A", "B", "C", "D", "E", "F", "G", "H", "I", "J">>
Lowers == <<"a", "b", "c", "d", "e", "f", "g", "h", "i", "j">>
Whitespace == {" "}
NonAscii == {"e_acute", "comb", "cjk", "d_stroke"}

RECURSIVE FlatMap(_, _)
FlatMap(F(_), s) == IF s = <<>> THEN <<>> ELSE F(Head(s)) \o FlatMap(F, Tail(s))

\* unicodedata.normalize('NFKD', text), one character
NFKDChar(c) == IF c = "e_acute" THEN <<"e", "comb">> ELSE <<c>>

\* .encode('ascii', 'ignore').decode('utf-8'), one character
AsciiIgnoreChar(c) == IF c \in NonAscii THEN <<>> ELSE <<c>>

\* str.lower(), one character
LowerChar(c) ==
    IF \E k \in 1..Len(Uppers) : Uppers[k] = c
    THEN <<Lowers[CHOOSE k \in 1..Len(Uppers) : Uppers[k] = c]>>
    ELSE <<c>>

RECURSIVE LStrip(_)
LStrip(s) == IF s # <<>> /\ Head(s) \in Whitespace THEN LStrip(Tail(s)) ELSE s

RECURSIVE RStrip(_)
RStrip(s) ==
    IF s # <<>> /\ s[Len(s)] \in Whitespace THEN RStrip(SubSeq(s, 1, Len(s) - 1)) ELSE s

\* str.strip()
Strip(s) == CHOOSE r \in {RStrip(l) : l \in {LStrip(s)}} : TRUE

\* normalize_text: NFKD, ASCII with the rest ignored, lower case, strip
normalize_text(text) ==
    CHOOSE r \in
        { Strip(lowered) :
            lowered \in { FlatMap(LowerChar, ascii) :
                ascii \in { FlatMap(AsciiIgnoreChar, nfkd) :
                    nfkd \in { FlatMap(NFKDChar, t) : t \in {text} } } } } : TRUE

(***************************************************************************)
(* difflib.SequenceMatcher(None, a, b).ratio(): the matching blocks are    *)
(* found by taking the longest common block (earliest in a, then earliest  *)
(* in b) and recursing to its left and to its right; ratio = 2*M/T.        *)
(***************************************************************************)
RECURSIVE BlockLen(_, _, _, _, _, _)
BlockLen(a, b, i, j, ahi, bhi) ==
    IF i <= ahi /\ j <= bhi /\ a[i] = b[j]
    THEN 1 + BlockLen(a, b, i + 1, j + 1, ahi, bhi)
    ELSE 0

\* find_longest_match over a[alo..ahi], b[blo..bhi] (inclusive, both non-empty):
\* <<i, j, size>> of the longest block, the earliest in a, then the earliest in b
find_longest_match(a, b, alo, ahi, blo, bhi) ==
    LET blocks == {<<i, j, BlockLen(a, b, i, j, ahi, bhi)>> : i \in alo..ahi, j \in blo..bhi}
        Longest(S) ==
            CHOOSE m \in S : \A n \in S :
                \/ n[3] < m[3]
                \/ n[3] = m[3] /\ n[1] > m[1]
                \/ n[3] = m[3] /\ n[1] = m[1] /\ n[2] >= m[2]
    IN  CHOOSE m \in {Longest(S) : S \in {blocks}} : TRUE

RECURSIVE MatchedChars(_, _, _, _, _, _)
MatchedChars(a, b, alo, ahi, blo, bhi) ==
    IF alo > ahi \/ blo > bhi THEN 0
    ELSE CHOOSE total \in
            { IF m[3] = 0 THEN 0
              ELSE m[3]
                   + MatchedChars(a, b, alo, m[1] - 1, blo, m[2] - 1)
                   + MatchedChars(a, b, m[1] + m[3], ahi, m[2] + m[3], bhi) :
              m \in {find_longest_match(a, b, alo, ahi, blo, bhi)} } : TRUE

\* ratio() as the fraction <<numerator, denominator>>; 1.0 when both are empty
ratio(a, b) ==
    IF Len(a) + Len(b) = 0 THEN <<1, 1>>
    ELSE <<2 * MatchedChars(a, b, 1, Len(a), 1, Len(b)), Len(a) + Len(b)>>

\* Thresholds as fractions: 0.9 and 0.6
TitleThreshold == <<9, 10>>
FilenameThreshold == <<6, 10>>

\* r >= t on fractions with positive denominators
AtLeast(r, t) == r[1] * t[2] >= t[1] * r[2]
Greater(r, t) == r[1] * t[2] > t[1] * r[2]

(***************************************************************************)
(* The matching engine: inputs.                                            *)
(***************************************************************************)
VARIABLES
    pdf,            \* the PDF file the engine is invoked on
    metadata_set,   \* Controller.metadata_set: the list of metadata records
    sidecar,        \* the PDF's .title cache file: [exists, content]
    call,           \* what the last match_pdf_to_metadata invocation did
    fbm             \* the last direct _find_best_match application

matchVars == <<pdf, metadata_set, sidecar, call, fbm>>

T_abcdefghij == <<"a", "b", "c", "d", "e", "f", "g", "h", "i", "j">>
T_ABCDEFGHIJ == <<"A", "B", "C", "D", "e_acute", "F", "G", "H", "I", "J">>
T_abcdefghiz == <<"a", "b", "c", "d", "e", "f", "g", "h", "i", "z">>
T_abcdefghxy == <<"a", "b", "c", "d", "e", "f", "g", "h", "x", "y">>

\* metadata records: title and pubMedIdentifier (0: none)
RecordPool ==
    { [title |-> T_ABCDEFGHIJ, pubMedIdentifier |-> 111],
      [title |-> T_abcdefghiz, pubMedIdentifier |-> 0],
      [title |-> <<>>, pubMedIdentifier |-> 333] }

RECURSIVE SeqsUpTo(_, _)
SeqsUpTo(S, n) ==
    IF n = 0 THEN {<<>>}
    ELSE LET shorter == SeqsUpTo(S, n - 1)
         IN  shorter \cup {Append(q, x) : q \in {r \in shorter : Len(r) = n - 1}, x \in S}

RecordLists == SeqsUpTo(RecordPool, MaxRecords)

\* file names in the PDF folder
FileNames ==
    { T_abcdefghij \o <<".", "p", "d", "f">>,
      <<"a", "b", "c", "d", "e", "f", "_", "x", "-", "y", ".", "p", "d", "f">>,
      <<"z", "z", ".", "p", "d", "f">> }

\* raw /Title values; <<>> is an absent title
EmbeddedTitles ==
    { <<>>,
      <<"a", "b">>,
      <<" ", " ", " ", "a", "b", " ", " ", " ", " ">>,
      <<" ">> \o T_abcdefghij \o <<" ">>,
      T_abcdefghxy }

\* readable: PyPDF2 opens the file; a file it cannot open has no title and
\* no text.  text: what page.extract_text() gives, "empty" or "ok"
PdfPool ==
    { [name |-> n, readable |-> TRUE, title |-> t, text |-> x] :
        n \in FileNames, t \in EmbeddedTitles, x \in {"empty", "ok"} }
    \cup { [name |-> n, readable |-> FALSE, title |-> <<>>, text |-> "unreadable"] :
        n \in FileNames }

\* what a .title file may hold
SidecarContents ==
    { <<>>, <<" ">>, <<" ">> \o T_abcdefghij, T_abcdefghxy }

NoSidecar == [exists |-> FALSE, content |-> <<>>]

\* a .title file whose bytes are not UTF-8: f.read() raises UnicodeDecodeError
UndecodableSidecar == [exists |-> TRUE, content |-> <<"bad_byte">>]

SidecarStates ==
    {NoSidecar} \cup {[exists |-> TRUE, content |-> c] : c \in SidecarContents}
    \cup {UndecodableSidecar}

\* what lx.extract does: raises, finds no extraction, or returns a title
LxOutcomes ==
    { [kind |-> "raise", text |-> <<>>], [kind |-> "none", text |-> <<>>] }
    \cup { [kind |-> "title", text |-> c] : c \in SidecarContents }

(***************************************************************************)
(* os.path.splitext(basename)[0] and the filename candidate                *)
(***************************************************************************)
LastDot(name) ==
    IF \E k \in 1..Len(name) : name[k] = "."
    THEN CHOOSE k \in 1..Len(name) :
            name[k] = "." /\ \A m \in (k + 1)..Len(name) : name[m] # "."
    ELSE 0

\* a dot splits only if some character before it is not a dot
splitext_root(name) ==
    LET d == LastDot(name)
    IN  IF d > 0 /\ \E k \in 1..(d - 1) : name[k] # "."
        THEN SubSeq(name, 1, d - 1)
        ELSE name

ReplaceChar(c) == IF c \in {"_", "-"} THEN <<" ">> ELSE <<c>>

\* the filename candidates of the model's file names, computed once
FilenameTitles == [n \in FileNames |-> FlatMap(ReplaceChar, splitext_root(n))]

\* filename_title.replace('_', ' ').replace('-', ' ')
filename_title(name) == FilenameTitles[name]

(***************************************************************************)
(* _find_best_match: the index in metadata_set of the returned record,     *)
(* 0 for None.                                                             *)
(***************************************************************************)
\* every string the model hands to _find_best_match as title_to_match
TitlesToMatch ==
    {Strip(t) : t \in EmbeddedTitles}
    \cup {filename_title(n) : n \in FileNames}
    \cup SidecarContents
    \cup {Strip(c) : c \in SidecarContents}
    \cup {<<"cjk", "cjk">>}

\* lines 180-184: both sides normalized, then SequenceMatcher's ratio
ComputeSimilarity(title_to_match, meta) ==
    CHOOSE r \in { ratio(norm_title_to_match, norm_meta_title) :
                      norm_title_to_match \in {normalize_text(title_to_match)},
                      norm_meta_title \in {normalize_text(meta.title)} } : TRUE

\* the similarities of the model's strings, computed once
SimilarityTable ==
    [c \in TitlesToMatch, meta \in RecordPool |-> ComputeSimilarity(c, meta)]

similarity(title_to_match, meta) == SimilarityTable[title_to_match, meta]

\* candidates: the <<similarity, index>> pairs that reach the threshold, in order
RECURSIVE Candidates(_, _, _, _)
Candidates(title_to_match, ms, threshold, k) ==
    IF k > Len(ms) THEN <<>>
    ELSE LET sim == similarity(title_to_match, ms[k])
         IN  (IF AtLeast(sim, threshold) THEN <<<<sim, k>>>> ELSE <<>>)
             \o Candidates(title_to_match, ms, threshold, k + 1)

\* Python's max(candidates, key=...): a later item replaces the best only if greater
\* mutant: a later item replaces the best also when equal
RECURSIVE PyMax_last(_, _)
PyMax_last(best, rest) ==
    IF rest = <<>> THEN best
    ELSE PyMax_last(IF AtLeast(Head(rest)[1], best[1]) THEN Head(rest) ELSE best,
                    Tail(rest))

RECURSIVE PyMax(_, _)
PyMax(best, rest) ==
    IF rest = <<>> THEN best
    ELSE PyMax(IF Greater(Head(rest)[1], best[1]) THEN Head(rest) ELSE best, Tail(rest))

\* mutant: the position after the best record's is returned
_find_best_match_shifted(title_to_match, ms, threshold) ==
    IF title_to_match = <<>> THEN 0
    ELSE LET candidates == Candidates(title_to_match, ms, threshold, 1)
         IN  IF candidates # <<>> THEN PyMax(Head(candidates), Tail(candidates))[2] + 1 ELSE 0

_find_best_match(title_to_match, ms, threshold) ==
    IF title_to_match = <<>> THEN 0
    ELSE LET candidates == Candidates(title_to_match, ms, threshold, 1)
         IN  IF candidates # <<>> THEN PyMax(Head(candidates), Tail(candidates))[2] ELSE 0

(***************************************************************************)
(* get_title_from_text: reads the PDF's text, asks langextract for the     *)
(* title and caches the answer in the .title file.  lx is what lx.extract  *)
(* does, wr whether the cache file can be written.                         *)
(*   title: the returned title, <<>> with isNone for None                  *)
(***************************************************************************)
\* mutant: a PDF that cannot be opened is handed to langextract
get_title_from_text_unguarded(p, sc, lx, wr) ==
    IF p.text = "empty"
    THEN [isNone |-> TRUE, title |-> <<>>, lxInvoked |-> FALSE, sidecar |-> sc]
    ELSE LET found == lx.kind = "title"
             extracted_title == IF found THEN lx.text ELSE <<>>
         IN  [isNone |-> ~found,
              title |-> extracted_title,
              lxInvoked |-> TRUE,
              sidecar |-> IF wr THEN [exists |-> TRUE, content |-> extracted_title]
                          ELSE sc]

get_title_from_text(p, sc, lx, wr) ==
    IF p.text \in {"unreadable", "empty"}
    THEN \* lines 33-38, 44-46: return None before langextract and before caching
         [isNone |-> TRUE, title |-> <<>>, lxInvoked |-> FALSE, sidecar |-> sc]
    ELSE LET found == lx.kind = "title"
             extracted_title == IF found THEN lx.text ELSE <<>>
         IN  [isNone |-> ~found,
              title |-> extracted_title,
              lxInvoked |-> TRUE,
              \* f.write(extracted_title or "")
              sidecar |-> IF wr THEN [exists |-> TRUE, content |-> extracted_title]
                          ELSE sc]

MinTitleLen == 8

\* lines 213-221: the stripped /Title, '' when absent or when PyPDF2 fails
metadata_title(p) ==
    IF p.readable /\ p.title # <<>> THEN Strip(p.title) ELSE <<>>

\* line 224
TitleIsSubstantial(p) == Len(metadata_title(p)) >= MinTitleLen

(***************************************************************************)
(* match_pdf_to_metadata(pdf_path, metadata_set), with the .title file sc  *)
(* as found and the environment's answers: lx (langextract), wr (the cache *)
(* file can be written), rd (the cache file can be read).                  *)
(***************************************************************************)
Outcome(result, via, fnTried, scRead, extractCalled, lxInvoked, sc) ==
    [result |-> result, via |-> via, filenameTried |-> fnTried,
     sidecarRead |-> scRead, extractCalled |-> extractCalled,
     lxInvoked |-> lxInvoked, sidecar |-> sc]

\* mutant: an empty cache file does not stop a new extraction
Step3_retry_empty(p, ms, sc, lx, wr, rd) ==
    IF sc = UndecodableSidecar
    THEN Outcome(0, "none", TRUE, FALSE, FALSE, FALSE, sc)
    ELSE IF sc.exists /\ Strip(sc.content) # <<>>
    THEN LET match == _find_best_match(Strip(sc.content), ms, TitleThreshold)
         IN  Outcome(match, IF match # 0 THEN "cache" ELSE "none",
                     TRUE, TRUE, FALSE, FALSE, sc)
    ELSE LET ex == get_title_from_text(p, sc, lx, wr)
             match == IF ~ex.isNone /\ ex.title # <<>>
                      THEN _find_best_match(ex.title, ms, TitleThreshold)
                      ELSE 0
         IN  Outcome(match, IF match # 0 THEN "extract" ELSE "none",
                     TRUE, sc.exists, TRUE, ex.lxInvoked, ex.sidecar)

Step3(p, ms, sc, lx, wr, rd) ==
    IF sc.exists
    THEN IF ~rd
         THEN \* lines 264-265: IOError, OSError
              Outcome(0, "none", TRUE, FALSE, FALSE, FALSE, sc)
         ELSE IF sc = UndecodableSidecar
         THEN \* the UnicodeDecodeError is no OSError: lines 277-279
              Outcome(0, "none", TRUE, FALSE, FALSE, FALSE, sc)
         ELSE LET content_title == Strip(sc.content)
                  match == IF content_title # <<>>
                           THEN _find_best_match(content_title, ms, TitleThreshold)
                           ELSE 0
              IN  Outcome(match, IF match # 0 THEN "cache" ELSE "none",
                          TRUE, TRUE, FALSE, FALSE, sc)
    ELSE LET ex == get_title_from_text(p, sc, lx, wr)
             match == IF ~ex.isNone /\ ex.title # <<>>
                      THEN _find_best_match(ex.title, ms, TitleThreshold)
                      ELSE 0
         IN  Outcome(match, IF match # 0 THEN "extract" ELSE "none",
                     TRUE, FALSE, TRUE, ex.lxInvoked, ex.sidecar)

\* mutant: a miss on a substantial /Title falls through to the filename step
match_pdf_to_metadata_fallthrough(p, ms, sc, lx, wr, rd) ==
    LET byTitle == IF TitleIsSubstantial(p)
                   THEN _find_best_match(metadata_title(p), ms, TitleThreshold)
                   ELSE 0
        byName == _find_best_match(filename_title(p.name), ms, FilenameThreshold)
    IN  IF byTitle # 0
        THEN Outcome(byTitle, "title", FALSE, FALSE, FALSE, FALSE, sc)
        ELSE IF byName # 0
        THEN Outcome(byName, "filename", TRUE, FALSE, FALSE, FALSE, sc)
        ELSE Step3(p, ms, sc, lx, wr, rd)

\* mutant: the filename step uses the 0.9 threshold of the title steps
match_pdf_to_metadata_strict_filename(p, ms, sc, lx, wr, rd) ==
    IF TitleIsSubstantial(p)
    THEN LET match == _find_best_match(metadata_title(p), ms, TitleThreshold)
         IN  Outcome(match, IF match # 0 THEN "title" ELSE "none",
                     FALSE, FALSE, FALSE, FALSE, sc)
    ELSE LET match == _find_best_match(filename_title(p.name), ms, TitleThreshold)
         IN  IF match # 0
             THEN Outcome(match, "filename", TRUE, FALSE, FALSE, FALSE, sc)
             ELSE Step3(p, ms, sc, lx, wr, rd)

match_pdf_to_metadata(p, ms, sc, lx, wr, rd) ==
    IF TitleIsSubstantial(p)
    THEN LET match == _find_best_match(metadata_title(p), ms, TitleThreshold)
         IN  Outcome(match, IF match # 0 THEN "title" ELSE "none",
                     FALSE, FALSE, FALSE, FALSE, sc)
    ELSE LET match == _find_best_match(filename_title(p.name), ms, FilenameThreshold)
         IN  IF match # 0
             THEN Outcome(match, "filename", TRUE, FALSE, FALSE, FALSE, sc)
             ELSE Step3(p, ms, sc, lx, wr, rd)

(***************************************************************************)
(* The matching engine as a state machine: the consumer invokes the engine *)
(* on the PDF (Controller.on_pdf_detected, process_existing_pdfs), the     *)
(* project file is reloaded, the cache file is removed.                    *)
(***************************************************************************)
NoCall ==
    [done |-> FALSE, before |-> NoSidecar, after |-> NoSidecar,
     records |-> <<>>, result |-> 0,
     via |-> "none", filenameTried |-> FALSE, sidecarRead |-> FALSE,
     extractCalled |-> FALSE, lxInvoked |-> FALSE, extracted |-> <<>>]

NoFbm == [done |-> FALSE, candidate |-> <<>>, records |-> <<>>,
          threshold |-> TitleThreshold, result |-> 0]

\* candidates handed to _find_best_match
CandidatePool == TitlesToMatch

InitMatchVars ==
    /\ pdf \in PdfPool
    /\ metadata_set \in RecordLists
    /\ sidecar \in SidecarStates
    /\ call = NoCall
    /\ fbm = NoFbm

\* the cascade gets past the /Title and the filename steps
ReachesStep3(p, ms) ==
    /\ ~TitleIsSubstantial(p)
    /\ _find_best_match(filename_title(p.name), ms, FilenameThreshold) = 0

\* match = match_pdf_to_metadata(pdf_path, self.metadata_set); the environment
\* answers only what the invocation asks of it
MatchPdf ==
    \E step3 \in {ReachesStep3(pdf, metadata_set)} :
      LET asksLx == step3 /\ ~sidecar.exists /\ pdf.text = "ok"
          asksRd == step3 /\ sidecar.exists
      IN  \E lx \in IF asksLx THEN LxOutcomes ELSE {[kind |-> "none", text |-> <<>>]},
             wr \in IF asksLx THEN BOOLEAN ELSE {TRUE},
             rd \in IF asksRd THEN BOOLEAN ELSE {TRUE} :
            \E o \in {match_pdf_to_metadata(pdf, metadata_set, sidecar, lx, wr, rd)} :
                /\ call' = [done |-> TRUE, before |-> sidecar, after |-> o.sidecar,
                            records |-> metadata_set,
                            result |-> o.result, via |-> o.via,
                            filenameTried |-> o.filenameTried,
                            sidecarRead |-> o.sidecarRead,
                            extractCalled |-> o.extractCalled,
                            lxInvoked |-> o.lxInvoked,
                            extracted |-> IF o.lxInvoked /\ lx.kind = "title"
                                          THEN lx.text ELSE <<>>]
                /\ sidecar' = o.sidecar
                /\ UNCHANGED <<pdf, metadata_set, fbm>>

\* self.metadata_set = extract_metadata_from_project_file(content)
LoadMetadata ==
    /\ \E ms \in RecordLists : ms # metadata_set /\ metadata_set' = ms
    /\ call' = NoCall
    /\ fbm' = NoFbm
    /\ UNCHANGED <<pdf, sidecar>>

\* os.remove(title_file_path)
RemoveSidecar ==
    /\ sidecar.exists
    /\ sidecar' = NoSidecar
    /\ UNCHANGED <<pdf, metadata_set, call, fbm>>

\* a direct application of _find_best_match
ApplyFindBestMatch ==
    /\ \E c \in CandidatePool, th \in {TitleThreshold, FilenameThreshold} :
          fbm' = [done |-> TRUE, candidate |-> c, records |-> metadata_set,
                  threshold |-> th, result |-> _find_best_match(c, metadata_set, th)]
    /\ UNCHANGED <<pdf, metadata_set, sidecar, call>>

(***************************************************************************)
(* The watcher's new-download pipeline (EventHandler.handle_new_download). *)
(* Notification threads deliver create notifications for files of the      *)
(* downloads root; the file system holds, per file name, the version of    *)
(* the file present (0: no such file).                                     *)
(***************************************************************************)
VARIABLES
    dl,             \* downloads root: file name -> version present, 0 if none
    pf,             \* PDF folder: file name -> version present, 0 if none
    file_operation, \* config["file_operation"]: "Move" or "Copy"
    processing_lock,\* the thread holding EventHandler.processing_lock, 0 if free
    pc,             \* where each notification thread is in the handler
    src_path,       \* the src_path each thread handles
    arrivals,       \* how many times each file was downloaded
    notifs,         \* create notifications delivered, per file
    fileOps,        \* completed move/copy operations, per file
    pdf_detected,   \* PdfArrived events emitted, per file
    error_occurred, \* error events emitted
    disturbed,      \* per file: it vanished or a file operation on it failed
    modesSeen,      \* the file_operation values in effect so far
    emitted,        \* the paths PdfArrived was emitted with
    failures,       \* per file: move/copy operations that failed with an error other than ENOENT
    vanished        \* per file: another process removed it from the downloads root

watchVars == <<dl, pf, file_operation, processing_lock, pc, src_path, arrivals,
               notifs, fileOps, pdf_detected, error_occurred, disturbed, modesSeen,
               emitted, failures, vanished>>

Threads == 1..NumThreads

PlainPdf == <<"a", ".", "p", "d", "f">>
TaggedPdf == <<"P", "M", "I", "D", ":", "1", "-", "a", ".", "p", "d", "f">>
DownloadFiles == {PlainPdf, TaggedPdf}

Digits == {"0", "1", "2", "3", "4", "5", "6", "7", "8", "9"}
PmidPrefix == <<"P", "M", "I", "D", ":">>

\* mutant: no name counts as bearing the prefix
IsTagged_never(file_name) == FALSE

\* re.match(r'PMID:\d+', file_name)
IsTagged(file_name) ==
    /\ Len(file_name) > Len(PmidPrefix)
    /\ SubSeq(file_name, 1, Len(PmidPrefix)) = PmidPrefix
    /\ file_name[Len(PmidPrefix) + 1] \in Digits

\* EventHandler.downloads_folder and EventHandler.pdf_folder
downloads_folder == <<"/", "d">>
pdf_folder == <<"/", "p">>

\* os.path.join of a directory and a relative name
os_path_join(dir, name) == dir \o <<"/">> \o name

\* the absolute path of a file of the downloads root
DownloadPath(file_name) == os_path_join(downloads_folder, file_name)

\* os.path.basename: what follows the last separator
basename(path) ==
    IF \E k \in 1..Len(path) : path[k] = "/"
    THEN LET last == CHOOSE k \in 1..Len(path) :
                        path[k] = "/" /\ \A m \in (k + 1)..Len(path) : path[m] # "/"
         IN  SubSeq(path, last + 1, Len(path))
    ELSE path

\* mutant: the destination is the PDF folder itself
destination_path_folder(folder, src) == folder

\* destination_path = os.path.join(self.pdf_folder, os.path.basename(src_path))
destination_path(folder, src) == os_path_join(folder, basename(src))

InitWatchVars ==
    /\ dl = [f \in DownloadFiles |-> 0]
    /\ pf = [f \in DownloadFiles |-> 0]
    /\ file_operation \in {"Move", "Copy"}
    /\ processing_lock = 0
    /\ pc = [t \in Threads |-> "idle"]
    /\ src_path = [t \in Threads |-> PlainPdf]
    /\ arrivals = [f \in DownloadFiles |-> 0]
    /\ notifs = [f \in DownloadFiles |-> 0]
    /\ fileOps = [f \in DownloadFiles |-> 0]
    /\ pdf_detected = [f \in DownloadFiles |-> 0]
    /\ error_occurred = 0
    /\ disturbed = [f \in DownloadFiles |-> FALSE]
    /\ modesSeen = {file_operation}
    /\ emitted = {}
    /\ failures = [f \in DownloadFiles |-> 0]
    /\ vanished = [f \in DownloadFiles |-> FALSE]

TotalNotifs == notifs[PlainPdf] + notifs[TaggedPdf]

\* a browser writes a new file into the downloads root
Download(f) ==
    /\ dl[f] = 0
    /\ arrivals[f] < MaxArrivals
    /\ arrivals' = [arrivals EXCEPT ![f] = @ + 1]
    /\ dl' = [dl EXCEPT ![f] = arrivals[f] + 1]
    /\ UNCHANGED <<pf, file_operation, processing_lock, pc, src_path, notifs,
                   fileOps, pdf_detected, vanished, emitted, error_occurred, failures, disturbed, modesSeen>>

\* another process removes a file of the downloads root
Vanish(f) ==
    /\ dl[f] # 0
    /\ dl' = [dl EXCEPT ![f] = 0]
    /\ disturbed' = [disturbed EXCEPT ![f] = TRUE]
    /\ vanished' = [vanished EXCEPT ![f] = TRUE]
    /\ UNCHANGED <<pf, file_operation, processing_lock, pc, src_path, arrivals,
                   notifs, fileOps, pdf_detected, emitted, error_occurred, failures, modesSeen>>

\* the user switches the configured file operation
SetFileOperation ==
    /\ file_operation' = IF file_operation = "Move" THEN "Copy" ELSE "Move"
    /\ modesSeen' = modesSeen \cup {file_operation'}
    /\ UNCHANGED <<dl, pf, processing_lock, pc, src_path, arrivals, notifs,
                   fileOps, pdf_detected, vanished, emitted, error_occurred, failures, disturbed>>

\* on_created for a .pdf of the downloads root: calls handle_new_download
on_created(t, f) ==
    /\ pc[t] = "idle"
    /\ arrivals[f] > 0
    /\ TotalNotifs < MaxNotifs
    /\ notifs' = [notifs EXCEPT ![f] = @ + 1]
    /\ pc' = [pc EXCEPT ![t] = "acquire"]
    /\ src_path' = [src_path EXCEPT ![t] = f]
    /\ UNCHANGED <<dl, pf, file_operation, processing_lock, arrivals, fileOps,
                   pdf_detected, vanished, emitted, error_occurred, failures, disturbed, modesSeen>>

\* mutant: the with block is entered without waiting for the lock
AcquireLock_unguarded(t) ==
    /\ pc[t] = "acquire"
    /\ processing_lock' = t
    /\ pc' = [pc EXCEPT ![t] = "check1"]
    /\ UNCHANGED <<dl, pf, file_operation, src_path, arrivals, notifs, fileOps,
                   pdf_detected, vanished, emitted, error_occurred, failures, disturbed, modesSeen>>

\* with self.processing_lock: (entry)
AcquireLock(t) ==
    /\ pc[t] = "acquire"
    /\ processing_lock = 0
    /\ processing_lock' = t
    /\ pc' = [pc EXCEPT ![t] = "check1"]
    /\ UNCHANGED <<dl, pf, file_operation, src_path, arrivals, notifs, fileOps,
                   pdf_detected, vanished, emitted, error_occurred, failures, disturbed, modesSeen>>

\* mutant: the handler returns with the lock still held
Return_held(t) ==
    /\ pc' = [pc EXCEPT ![t] = "idle"]
    /\ src_path' = [src_path EXCEPT ![t] = PlainPdf]
    /\ UNCHANGED processing_lock

\* leaving the with block: the lock is released and the handler returns
Return(t) ==
    /\ processing_lock' = IF processing_lock = t THEN 0 ELSE processing_lock
    /\ pc' = [pc EXCEPT ![t] = "idle"]
    /\ src_path' = [src_path EXCEPT ![t] = PlainPdf]

\* the handler goes on to its next statement
Goto(t, label) ==
    /\ pc' = [pc EXCEPT ![t] = label]
    /\ UNCHANGED <<processing_lock, src_path>>

\* if not os.path.exists(src_path): return; otherwise time.sleep(1)
CheckExists(t) ==
    /\ pc[t] = "check1"
    /\ IF dl[src_path[t]] = 0 THEN Return(t) ELSE Goto(t, "sleep")
    /\ UNCHANGED <<dl, pf, file_operation, arrivals, notifs, fileOps,
                   pdf_detected, vanished, emitted, error_occurred, failures, disturbed, modesSeen>>

\* after the sleep: if not os.path.exists(src_path): return
CheckAgain(t) ==
    /\ pc[t] = "sleep"
    /\ IF dl[src_path[t]] = 0 THEN Return(t) ELSE Goto(t, "op")
    /\ UNCHANGED <<dl, pf, file_operation, arrivals, notifs, fileOps,
                   pdf_detected, vanished, emitted, error_occurred, failures, disturbed, modesSeen>>

\* mutant: the move leaves the source behind
SourceAfter_kept(operation, v) == v

\* what is left in the downloads root after the operation on version v
SourceAfter(operation, v) == IF operation = "Copy" THEN v ELSE 0

\* mutant: no exception is taken for the handled race
IsBenignError_none(e) == FALSE

\* mutant: every exception is taken for the handled race
IsBenignError_any(e) == TRUE

\* isinstance(e, FileNotFoundError) or e.errno == 2
IsBenignError(e) == e = "nodir"

\* the try block: the tag check, then shutil.copy2 or shutil.move.  fault is
\* what the file system does: "ok", "perm" (permission denied, disk full)
\* or "nodir" (the PDF folder is missing: FileNotFoundError)
FileOperation(t, fault) ==
    LET f == src_path[t]
    IN  /\ pc[t] = "op"
        /\ IF IsTagged(f)
           THEN /\ Return(t)
                /\ UNCHANGED <<dl, pf, fileOps, error_occurred, failures, disturbed>>
           ELSE IF dl[f] = 0 \/ fault # "ok"
           THEN \* the operation raises: FileNotFoundError if the source is gone
                LET e == IF dl[f] = 0 THEN "nodir" ELSE fault
                IN  /\ Return(t)
                    /\ failures' = IF e = "perm"
                                   THEN [failures EXCEPT ![f] = @ + 1]
                                   ELSE failures
                    /\ error_occurred' = IF IsBenignError(e)
                                         THEN error_occurred
                                         ELSE error_occurred + 1
                    /\ disturbed' = [disturbed EXCEPT ![f] = TRUE]
                    /\ UNCHANGED <<dl, pf, fileOps>>
           ELSE /\ pf' = [pf EXCEPT ![f] = dl[f]]
                /\ dl' = [dl EXCEPT ![f] = SourceAfter(file_operation, dl[f])]
                /\ fileOps' = [fileOps EXCEPT ![f] = @ + 1]
                /\ Goto(t, "emit")
                /\ UNCHANGED <<error_occurred, failures, disturbed>>
        /\ UNCHANGED <<file_operation, arrivals, notifs, pdf_detected, vanished, emitted, modesSeen>>

\* self.pdf_detected.emit(destination_path), then the with block ends
EmitPdfDetected(t) ==
    /\ pc[t] = "emit"
    /\ pdf_detected' = [pdf_detected EXCEPT ![src_path[t]] = @ + 1]
    /\ emitted' = emitted \cup {destination_path(pdf_folder, DownloadPath(src_path[t]))}
    /\ Return(t)
    /\ UNCHANGED <<dl, pf, file_operation, arrivals, notifs, fileOps,
                   error_occurred, failures, disturbed, modesSeen, vanished>>

\* the content of a file that is in the PDF folder before any download arrives
ExistingContent == -1

\* the PDF folder holds a file of that name already (an earlier download of the
\* same base name, or a file put there by hand)
PlaceInPdfFolder(f) ==
    /\ pf[f] = 0
    /\ arrivals[f] = 0
    /\ pf' = [pf EXCEPT ![f] = ExistingContent]
    /\ UNCHANGED <<dl, file_operation, processing_lock, pc, src_path, arrivals, notifs,
                   fileOps, pdf_detected, vanished, emitted, error_occurred, failures,
                   disturbed, modesSeen>>

(***************************************************************************)
(* The move debounce (EventHandler.on_moved).  The clock counts ticks of   *)
(* half a second.                                                          *)
(***************************************************************************)
VARIABLES
    clock,          \* time.time(), in ticks
    last_moved,     \* EventHandler.last_moved: key -> time, -1 if not in the dict
    mpc,            \* where each notification thread is in on_moved
    mkey,           \* the event_key each thread handles
    mnow,           \* the local now of each thread
    movedLog,       \* per key: the times its move notifications arrived
    pdf_folder_changed, \* PdfFolderChanged events emitted, per key
    overlapped      \* per key: two notifications for it were handled at once

debounceVars == <<clock, last_moved, mpc, mkey, mnow, movedLog, pdf_folder_changed,
                  overlapped>>

\* the threads that deliver move notifications
MoveThreads == 1..NumMoveThreads

\* 2 seconds, in ticks
DebounceWindow == 4

P_pa == <<"/", "p", "/", "a">>
P_da == <<"/", "d", "/", "a">>
P_db == <<"/", "d", "/", "b">>

\* event_key = (abspath(event.src_path), abspath(event.dest_path))
MoveKeys == {<<P_da, P_pa>>, <<P_da, P_db>>}

\* str.startswith
StartsWith(s, prefix) ==
    Len(s) >= Len(prefix) /\ SubSeq(s, 1, Len(prefix)) = prefix

InitDebounceVars ==
    /\ clock = 0
    /\ last_moved = [k \in MoveKeys |-> -1]
    /\ mpc = [t \in MoveThreads |-> "idle"]
    /\ mkey = [t \in MoveThreads |-> <<P_da, P_pa>>]
    /\ mnow = [t \in MoveThreads |-> 0]
    /\ movedLog = [k \in MoveKeys |-> <<>>]
    /\ pdf_folder_changed = [k \in MoveKeys |-> 0]
    /\ overlapped = [k \in MoveKeys |-> FALSE]

RECURSIVE SumLen(_, _)
SumLen(f, S) ==
    IF S = {} THEN 0
    ELSE LET k == CHOOSE x \in S : TRUE IN Len(f[k]) + SumLen(f, S \ {k})

\* half a second passes
Tick ==
    /\ clock < MaxTime
    /\ clock' = clock + 1
    /\ UNCHANGED <<last_moved, mpc, mkey, mnow, movedLog, pdf_folder_changed,
                   overlapped>>

\* on_moved is entered: now = time.time(); event_key = ...
on_moved(t, k) ==
    /\ mpc[t] = "idle"
    /\ SumLen(movedLog, MoveKeys) < MaxMoves
    /\ mpc' = [mpc EXCEPT ![t] = "check"]
    /\ mkey' = [mkey EXCEPT ![t] = k]
    /\ mnow' = [mnow EXCEPT ![t] = clock]
    /\ movedLog' = [movedLog EXCEPT ![k] = Append(@, clock)]
    /\ overlapped' = [overlapped EXCEPT ![k] =
                        @ \/ \E u \in MoveThreads \ {t} : mpc[u] # "idle" /\ mkey[u] = k]
    /\ UNCHANGED <<clock, last_moved, pdf_folder_changed>>

\* on_moved returns: its locals are gone
MovedReturn(t) ==
    /\ mpc' = [mpc EXCEPT ![t] = "idle"]
    /\ mkey' = [mkey EXCEPT ![t] = <<P_da, P_pa>>]
    /\ mnow' = [mnow EXCEPT ![t] = 0]

\* if event_key in self.last_moved and now - self.last_moved[event_key] < 2: return
DebounceCheck(t) ==
    /\ mpc[t] = "check"
    /\ IF last_moved[mkey[t]] # -1 /\ mnow[t] - last_moved[mkey[t]] < DebounceWindow
       THEN MovedReturn(t)
       ELSE /\ mpc' = [mpc EXCEPT ![t] = "record"]
            /\ UNCHANGED <<mkey, mnow>>
    /\ UNCHANGED <<clock, last_moved, movedLog, pdf_folder_changed, overlapped>>

\* mutant: the time of the notification is not recorded
DebounceRecord_skipped(t) ==
    /\ mpc[t] = "record"
    /\ mpc' = [mpc EXCEPT ![t] = "emit"]
    /\ UNCHANGED <<clock, last_moved, mkey, mnow, movedLog, pdf_folder_changed,
                   overlapped>>

\* self.last_moved[event_key] = now
DebounceRecord(t) ==
    /\ mpc[t] = "record"
    /\ last_moved' = [last_moved EXCEPT ![mkey[t]] = mnow[t]]
    /\ mpc' = [mpc EXCEPT ![t] = "emit"]
    /\ UNCHANGED <<clock, mkey, mnow, movedLog, pdf_folder_changed, overlapped>>

\* if src or dest starts with self.pdf_folder: self.pdf_folder_changed.emit()
EmitFolderChanged(t) ==
    /\ mpc[t] = "emit"
    /\ pdf_folder_changed' =
          IF StartsWith(mkey[t][1], pdf_folder) \/ StartsWith(mkey[t][2], pdf_folder)
          THEN [pdf_folder_changed EXCEPT ![mkey[t]] = @ + 1]
          ELSE pdf_folder_changed
    /\ MovedReturn(t)
    /\ UNCHANGED <<clock, last_moved, movedLog, overlapped>>

(***************************************************************************)
(* The project-file debounce (EventHandler.on_modified).  time.time() is   *)
(* Epoch + clock: the program runs later than 2 seconds after time 0.      *)
(***************************************************************************)
VARIABLES
    last_project_file_mod_time, \* EventHandler.last_project_file_mod_time
    project_file,   \* the project file on disk: "content", "empty" or "missing"
    modpc,          \* where each notification thread is in on_modified
    modnow,         \* the local now of each thread
    modwake,        \* the clock at which the thread's sleep(0.5) ends
    modLog,         \* the times the project file's modify notifications arrived
    sizeSeen,       \* what the settle checks found, in order
    project_file_changed, \* ProjectFileChanged events emitted
    modRaced,       \* a notification arrived while another was between check and record
    unreported      \* the last write that left content: "written", then "notified" when
                    \* a notification followed it, "none" once an event followed it

modifyVars == <<last_project_file_mod_time, project_file, modpc, modnow, modwake,
                modLog, sizeSeen, project_file_changed, modRaced, unreported>>

Epoch == DebounceWindow

\* time.sleep(0.5), in ticks
SettleDelay == 1

ProjectFileStates == {"content", "empty", "missing"}

InitModifyVars ==
    /\ last_project_file_mod_time = 0
    /\ project_file = "content"
    /\ modpc = [t \in MoveThreads |-> "idle"]
    /\ modnow = [t \in MoveThreads |-> 0]
    /\ modwake = [t \in MoveThreads |-> 0]
    /\ modLog = <<>>
    /\ sizeSeen = <<>>
    /\ project_file_changed = 0
    /\ modRaced = FALSE
    /\ unreported = "none"

\* an editor truncates, writes or removes the project file
WriteProjectFile(st) ==
    /\ st # project_file
    /\ project_file' = st
    /\ unreported' = IF st = "content" THEN "written" ELSE "none"
    /\ UNCHANGED <<last_project_file_mod_time, modpc, modnow, modwake, modLog,
                   sizeSeen, project_file_changed, modRaced>>

\* on_modified is entered for a file of the project directory; only the
\* project file itself gets past line 161: now = time.time()
on_modified(t, is_project_file) ==
    /\ modpc[t] = "idle"
    /\ Len(modLog) < MaxModifies
    /\ IF is_project_file
       THEN /\ modpc' = [modpc EXCEPT ![t] = "check"]
            /\ modnow' = [modnow EXCEPT ![t] = Epoch + clock]
            /\ modLog' = Append(modLog, clock)
            /\ modRaced' = (modRaced \/ \E u \in MoveThreads \ {t} :
                                            modpc[u] \in {"check", "record"})
       ELSE UNCHANGED <<modpc, modnow, modLog, modRaced>>
    /\ unreported' = IF is_project_file /\ unreported = "written" THEN "notified"
                     ELSE unreported
    /\ UNCHANGED <<last_project_file_mod_time, project_file, modwake, sizeSeen,
                   project_file_changed>>

\* on_modified returns: its locals are gone
ModifiedReturn(t) ==
    /\ modpc' = [modpc EXCEPT ![t] = "idle"]
    /\ modnow' = [modnow EXCEPT ![t] = 0]
    /\ modwake' = [modwake EXCEPT ![t] = 0]

\* if now - self.last_project_file_mod_time < 2: return
ModifiedCheck(t) ==
    /\ modpc[t] = "check"
    /\ IF modnow[t] - last_project_file_mod_time < DebounceWindow
       THEN ModifiedReturn(t)
       ELSE /\ modpc' = [modpc EXCEPT ![t] = "record"]
            /\ UNCHANGED <<modnow, modwake>>
    /\ UNCHANGED <<last_project_file_mod_time, project_file, modLog, sizeSeen,
                   project_file_changed, modRaced, unreported>>

\* self.last_project_file_mod_time = now; time.sleep(0.5) begins
ModifiedRecord(t) ==
    /\ modpc[t] = "record"
    /\ last_project_file_mod_time' = modnow[t]
    /\ modpc' = [modpc EXCEPT ![t] = "sleep"]
    /\ modwake' = [modwake EXCEPT ![t] = clock + SettleDelay]
    /\ UNCHANGED <<project_file, modnow, modLog, sizeSeen, project_file_changed,
                   modRaced, unreported>>

\* mutant: the event is emitted whatever the size
ProjectFileChangedAfter_any(count, seen) == IF seen = "missing" THEN count ELSE count + 1

\* if os.path.getsize(event.src_path) > 0: emit; an OSError is only logged
ProjectFileChangedAfter(count, seen) == IF seen = "content" THEN count + 1 ELSE count

\* the sleep is over: the try block of lines 170-177
SettleCheck(t) ==
    /\ modpc[t] = "sleep"
    /\ clock >= modwake[t]
    /\ sizeSeen' = Append(sizeSeen, project_file)
    /\ project_file_changed' = ProjectFileChangedAfter(project_file_changed, project_file)
    /\ unreported' = IF project_file_changed' # project_file_changed THEN "none"
                     ELSE unreported
    /\ ModifiedReturn(t)
    /\ UNCHANGED <<last_project_file_mod_time, project_file, modLog, modRaced>>

(***************************************************************************)
(* The consumer of the match decision (Controller): on_pdf_detected for an *)
(* arriving PDF, process_existing_pdfs for the scan of the PDF folder, and *)
(* _handle_successful_match.  The PDF folder holds the one file pdf, under *)
(* its own name or under its name prefixed with an identifier.             *)
(***************************************************************************)
VARIABLES
    pmid_hint,      \* Controller.pmid_hint, 0 for None
    tag,            \* the identifier prefixed to the file's name, 0 if none
    last            \* what the last handling of the file did

consumerVars == <<pmid_hint, tag, last>>

\* identifiers a user may give as the hint
HintPool == {777}

\* identifiers a file of the PDF folder may already carry
TagPool == {111}

RECURSIVE DecimalDigits(_)
DecimalDigits(n) ==
    IF n < 10 THEN <<CHOOSE c \in Digits : c = ToString(n)>>
    ELSE DecimalDigits(n \div 10) \o DecimalDigits(n % 10)

\* f"PMID:{pmid}-{original_filename}"
tagged_name(pmid, original_filename) ==
    PmidPrefix \o DecimalDigits(pmid) \o <<"-">> \o original_filename

\* the name the file has in the PDF folder
current_name(p, tg) == IF tg = 0 THEN p.name ELSE tagged_name(tg, p.name)

NoHandling ==
    [kind |-> "none", name |-> <<>>, hint |-> 0, engine |-> FALSE, matched |-> FALSE,
     id |-> 0, renamed |-> FALSE, renameFailed |-> FALSE,
     sidecarFound |-> NoSidecar, sidecarLeft |-> NoSidecar, hintAfter |-> 0,
     extractCalled |-> FALSE]

InitConsumerVars ==
    /\ pmid_hint = 0
    /\ tag = 0
    /\ last = NoHandling

\* set_pmid_hint(pmid)
set_pmid_hint(pmid) ==
    /\ pmid_hint' = pmid
    /\ UNCHANGED <<tag, last>>

\* mutant: the cache file is removed only after the rename
SidecarAfterMatch_renamed(sc, id, rm_ok, rename_ok) ==
    IF sc.exists /\ rm_ok /\ id # 0 /\ rename_ok THEN NoSidecar ELSE sc

\* lines 200-208: the .title file is removed first, whatever the match holds
SidecarAfterMatch(sc, id, rm_ok, rename_ok) ==
    IF sc.exists /\ rm_ok THEN NoSidecar ELSE sc

\* _handle_successful_match(pdf_path, match): sc is the .title file the engine
\* left, id the match's pubMedIdentifier (0: none), rm_ok and rename_ok whether
\* os.remove and os.rename succeed
_handle_successful_match(sc, id, hint, tg, rm_ok, rename_ok) ==
    LET renamed == id # 0 /\ rename_ok
    IN  [sidecar |-> SidecarAfterMatch(sc, id, rm_ok, rename_ok),
         renamed |-> renamed,
         renameFailed |-> id # 0 /\ ~rename_ok,
         tag |-> IF renamed THEN id ELSE tg,
         \* lines 219-222: the hint is cleared after any successful rename
         pmid_hint |-> IF renamed THEN 0 ELSE hint]

\* the identifier of the record the engine returned
MatchId(ms, k) == IF k = 0 THEN 0 ELSE ms[k].pubMedIdentifier

\* the environment's answers the engine may ask for
EngineEnv == [lx : LxOutcomes, wr : BOOLEAN, rd : BOOLEAN]

\* the handling leaves the file as it is
Untouched(kind, engine_run) ==
    [NoHandling EXCEPT !.kind = kind, !.name = current_name(pdf, tag),
                       !.hint = pmid_hint, !.engine = engine_run,
                       !.sidecarFound = sidecar, !.sidecarLeft = sidecar,
                       !.hintAfter = pmid_hint]

\* the match found by the engine or given by the hint is handled
Handle(kind, engine_run, extract_called, sc, id) ==
    \E rm_ok, rename_ok \in BOOLEAN :
    \E h \in {_handle_successful_match(sc, id, pmid_hint, tag, rm_ok, rename_ok)} :
        /\ sidecar' = h.sidecar
        /\ tag' = h.tag
        /\ pmid_hint' = h.pmid_hint
        /\ last' = [kind |-> kind, name |-> current_name(pdf, tag), hint |-> pmid_hint,
                    engine |-> engine_run, matched |-> TRUE, id |-> id,
                    renamed |-> h.renamed, renameFailed |-> h.renameFailed,
                    sidecarFound |-> sc, sidecarLeft |-> h.sidecar,
                    hintAfter |-> h.pmid_hint, extractCalled |-> extract_called]

\* the engine is run on the file and its decision handled
RunEngine(kind) ==
    \E env \in EngineEnv :
    \E o \in {match_pdf_to_metadata(pdf, metadata_set, sidecar, env.lx, env.wr, env.rd)} :
        IF o.result # 0
        THEN Handle(kind, TRUE, o.extractCalled, o.sidecar, MatchId(metadata_set, o.result))
        ELSE /\ sidecar' = o.sidecar
             /\ last' = [Untouched(kind, TRUE) EXCEPT !.sidecarFound = o.sidecar,
                                                       !.sidecarLeft = o.sidecar,
                                                       !.extractCalled = o.extractCalled]
             /\ UNCHANGED <<tag, pmid_hint>>

\* on_pdf_detected(file_path): the pipeline delivered the file under its own name
on_pdf_detected ==
    /\ tag = 0
    /\ IF metadata_set = <<>>
       THEN /\ last' = Untouched("arrival", FALSE)
            /\ UNCHANGED <<sidecar, tag, pmid_hint>>
       ELSE IF pmid_hint # 0
       THEN Handle("arrival", FALSE, FALSE, sidecar, pmid_hint)
       ELSE RunEngine("arrival")
    /\ UNCHANGED <<pdf, metadata_set, call, fbm>>

\* process_existing_pdfs: the scan meets the file of the PDF folder
process_existing_pdfs ==
    /\ IF metadata_set = <<>> \/ IsTagged(current_name(pdf, tag))
       THEN /\ last' = Untouched("scan", FALSE)
            /\ UNCHANGED <<sidecar, tag, pmid_hint>>
       ELSE RunEngine("scan")
    /\ UNCHANGED <<pdf, metadata_set, call, fbm>>

\* the file is downloaded again: the pipeline puts it into the PDF folder under
\* its own name
Redownload ==
    /\ tag # 0
    /\ tag' = 0
    /\ UNCHANGED <<pmid_hint, last, matchVars>>

(***************************************************************************)
(* Create and delete notifications under the PDF root (on_created,         *)
(* on_deleted).  The watch on the PDF root reports the pipeline's own      *)
(* write as a create notification like any other.                          *)
(***************************************************************************)
VARIABLES
    written_notified,   \* per download: create notifications delivered for the pipeline's writes
    own_emits,          \* pdf_folder_changed emitted on those
    other_notified,     \* create and delete notifications of others' changes under the PDF root
    other_emits,        \* pdf_folder_changed emitted on those
    folder_events,      \* create and delete notifications of others' changes, all paths
    others_files        \* the files others created and did not delete

folderVars == <<written_notified, own_emits, other_notified, other_emits, folder_events,
                others_files>>

\* the number of notifications of others' changes a behaviour holds
MaxFolderEvents == 2

\* paths others create and delete files at: in the PDF root, in a folder below
\* it, and outside of every watched root's files of interest
FolderPaths ==
    { os_path_join(pdf_folder, <<"x", ".", "p", "d", "f">>),
      os_path_join(os_path_join(pdf_folder, <<"s">>), <<"n", ".", "t", "x", "t">>),
      os_path_join(downloads_folder, <<"n", ".", "t", "x", "t">>) }

\* src_path_abs.lower().endswith('.pdf'), for names in lower case
EndsWithPdf(path) ==
    Len(path) >= 4 /\ SubSeq(path, Len(path) - 3, Len(path)) = <<".", "p", "d", "f">>

\* on_created, lines 69-75: the branch that emits pdf_folder_changed
CreatedEmits(path) ==
    /\ ~(StartsWith(path, downloads_folder) /\ EndsWithPdf(path))
    /\ StartsWith(path, pdf_folder)

\* on_deleted, lines 83-85
DeletedEmits(path) == StartsWith(path, pdf_folder)

\* the path lies under the PDF root
UnderPdfRoot(path) == StartsWith(path, pdf_folder \o <<"/">>)

InitFolderVars ==
    /\ written_notified = [f \in DownloadFiles |-> 0]
    /\ own_emits = 0
    /\ other_notified = 0
    /\ other_emits = 0
    /\ folder_events = 0
    /\ others_files = {}

\* on_created for the file the pipeline wrote into the PDF root
OwnWriteCreated(f) ==
    /\ written_notified[f] < fileOps[f]
    /\ written_notified' = [written_notified EXCEPT ![f] = @ + 1]
    /\ own_emits' = IF CreatedEmits(destination_path(pdf_folder, DownloadPath(f)))
                    THEN own_emits + 1 ELSE own_emits
    /\ UNCHANGED <<other_notified, other_emits, folder_events, others_files>>

\* on_created for a file another process created
OtherCreated(path) ==
    /\ folder_events < MaxFolderEvents
    /\ path \notin others_files
    /\ others_files' = others_files \cup {path}
    /\ folder_events' = folder_events + 1
    /\ other_notified' = IF UnderPdfRoot(path) THEN other_notified + 1 ELSE other_notified
    /\ other_emits' = IF CreatedEmits(path) THEN other_emits + 1 ELSE other_emits
    /\ UNCHANGED <<written_notified, own_emits>>

\* on_deleted for a file another process deleted
OtherDeleted(path) ==
    /\ folder_events < MaxFolderEvents
    /\ path \in others_files
    /\ others_files' = others_files \ {path}
    /\ folder_events' = folder_events + 1
    /\ other_notified' = IF UnderPdfRoot(path) THEN other_notified + 1 ELSE other_notified
    /\ other_emits' = IF DeletedEmits(path) THEN other_emits + 1 ELSE other_emits
    /\ UNCHANGED <<written_notified, own_emits>>

(***************************************************************************)
(* normalize_text applied to a string, and to its own result.              *)
(***************************************************************************)
VARIABLES
    text_in,        \* the string handed to normalize_text
    normalized      \* [once, twice]: the result, and the result's result

normVars == <<text_in, normalized>>

\* the length of the strings normalized
MaxTextLen == 3

\* the characters of the strings normalized
TextChars == {"D", "d", "d_stroke", "E", "e", "e_acute", " ", "cjk"}

NotNormalized == [done |-> 0, once |-> <<>>, twice |-> <<>>]

InitNormVars ==
    /\ text_in = <<>>
    /\ normalized = NotNormalized

\* normalize_text(text)
ApplyNormalize ==
    /\ normalized.done = 0
    /\ normalized' = [done |-> 1, once |-> normalize_text(text_in), twice |-> <<>>]
    /\ UNCHANGED text_in

\* normalize_text(normalize_text(text))
ApplyNormalizeAgain ==
    /\ normalized.done = 1
    /\ normalized' = [normalized EXCEPT !.done = 2, !.twice = normalize_text(normalized.once)]
    /\ UNCHANGED text_in

(***************************************************************************)
(* FileMonitor: update_paths, start and stop.  A root is "ok" (it exists   *)
(* and can be read and written), "noaccess" (it exists but cannot be both  *)
(* read and written), "missing", or "unset" (no project file configured).  *)
(***************************************************************************)
VARIABLES
    root_status,    \* the file system: the state of each root
    downloads_folder_accessible,    \* FileMonitor.downloads_folder_accessible
    pdf_folder_accessible,          \* FileMonitor.pdf_folder_accessible
    observer,       \* FileMonitor.observer: "none", "new" (not started), "alive", "stopped"
    scheduled,      \* the roots scheduled on the observer
    seen_status,    \* root_status when the observer was last set up
    orphaned,       \* an observer FileMonitor no longer refers to is alive
    ops             \* the last two operations called, and whether the last changed the observer

monitorVars == <<root_status, downloads_folder_accessible, pdf_folder_accessible,
                 observer, scheduled, seen_status, orphaned, ops>>

Roots == {"downloads", "project", "pdf"}

RootStates ==
    [downloads : {"ok", "noaccess", "missing"},
     project : {"ok", "noaccess", "missing", "unset"},
     pdf : {"ok", "noaccess", "missing"}]

NoOps == [prev |-> "none", last |-> "none", changed |-> FALSE]

\* FileMonitor.__init__ before its call of update_paths
InitMonitorVars ==
    /\ root_status = [downloads |-> "ok", project |-> "ok", pdf |-> "ok"]
    /\ downloads_folder_accessible = FALSE
    /\ pdf_folder_accessible = FALSE
    /\ observer = "none"
    /\ scheduled = {}
    /\ seen_status = root_status
    /\ orphaned = FALSE
    /\ ops = NoOps

\* a root is created, removed, or its permissions change; the project file is
\* configured or not
ChangeRoot(r, st) ==
    /\ st # root_status[r]
    /\ [root_status EXCEPT ![r] = st] \in RootStates
    /\ root_status' = [root_status EXCEPT ![r] = st]
    /\ UNCHANGED <<downloads_folder_accessible, pdf_folder_accessible, observer,
                   scheduled, seen_status, orphaned, ops>>

\* check_directory(path): os.path.isdir and os.access(path, R_OK | W_OK)
check_directory(st) == st = "ok"

\* line 204: self.project_path and os.path.isdir(os.path.dirname(self.project_path))
ProjectScheduled(st) == st \in {"ok", "noaccess"}

\* lines 200-208: the roots start() schedules
ToSchedule(dl_ok, pdf_ok, status) ==
    (IF dl_ok THEN {"downloads"} ELSE {})
    \cup (IF ProjectScheduled(status.project) THEN {"project"} ELSE {})
    \cup (IF pdf_ok THEN {"pdf"} ELSE {})

Recorded(name, changed) == [prev |-> ops.last, last |-> name, changed |-> changed]

\* mutant: start() leaves a running observer running
StoppedFirst_skipped(o) == o

\* lines 194-195: if self.observer and self.observer.is_alive(): self.stop()
StoppedFirst(o) == IF o = "alive" THEN "stopped" ELSE o

\* start() with the flags dl_ok and pdf_ok: a running observer is stopped, a new
\* one is set up and started if it has a root.  started is what observer.start()
\* does when a scheduled root cannot be watched: it starts all the same or raises
StartWith(name, dl_ok, pdf_ok, started) ==
    \E roots \in {ToSchedule(dl_ok, pdf_ok, root_status)} :
        /\ scheduled' = roots
        /\ observer' = IF roots = {} THEN "new"
                       ELSE IF \A r \in roots : root_status[r] = "ok" THEN "alive"
                       ELSE IF started THEN "alive" ELSE "new"
        /\ seen_status' = root_status
        /\ orphaned' = (orphaned \/ StoppedFirst(observer) = "alive")
        /\ ops' = Recorded(name, observer = "alive")
        /\ UNCHANGED root_status

\* FileMonitor.start()
start(started) ==
    /\ StartWith("start", downloads_folder_accessible, pdf_folder_accessible, started)
    /\ UNCHANGED <<downloads_folder_accessible, pdf_folder_accessible>>

\* FileMonitor.update_paths(): the paths are read from the configuration, the
\* two flags are computed, then start()
update_paths(started) ==
    /\ downloads_folder_accessible' = check_directory(root_status.downloads)
    /\ pdf_folder_accessible' = check_directory(root_status.pdf)
    /\ StartWith("update_paths", check_directory(root_status.downloads),
                 check_directory(root_status.pdf), started)

\* mutant: stop() returns without stopping the observer
stop_nothing ==
    /\ ops' = Recorded("stop", FALSE)
    /\ UNCHANGED <<root_status, downloads_folder_accessible, pdf_folder_accessible,
                   observer, scheduled, seen_status, orphaned>>

\* FileMonitor.stop(): if self.observer and self.observer.is_alive(): stop, join
stop ==
    /\ observer' = IF observer = "alive" THEN "stopped" ELSE observer
    /\ ops' = Recorded("stop", observer = "alive")
    /\ UNCHANGED <<root_status, downloads_folder_accessible, pdf_folder_accessible,
                   scheduled, seen_status, orphaned>>

\* the roots whose notifications reach the handler
LiveSubscriptions == IF observer = "alive" THEN scheduled ELSE {}

(***************************************************************************)
(* The configuration a new-download sequence runs under.                   *)
(***************************************************************************)
VARIABLES
    began_with      \* config["file_operation"] when the running sequence took the lock

seqVars == <<began_with>>

InitSeqVars == began_with = "none"

(***************************************************************************)
(* The handler's dispatch on the path of a notification.  update_paths     *)
(* sets the handler's roots, "" for a root that is not configured.  The    *)
(* project file lies in "/", so the watch on its directory reports the     *)
(* files directly in "/"; the watches on the two roots report the files    *)
(* below them.                                                             *)
(***************************************************************************)
VARIABLES
    handler_downloads_folder,   \* EventHandler.downloads_folder
    handler_pdf_folder,         \* EventHandler.pdf_folder
    recent_moves,               \* the keys of last_moved younger than 2 seconds
    notified                    \* the last notification and what the handler did on it

dispatchVars == <<handler_downloads_folder, handler_pdf_folder, recent_moves, notified>>

\* paths of files that are created and deleted: in the PDF root, in the
\* downloads root, and in the project file's directory
NotifiedPaths ==
    { os_path_join(pdf_folder, <<"x", ".", "p", "d", "f">>),
      os_path_join(downloads_folder, <<"a", ".", "p", "d", "f">>),
      os_path_join(downloads_folder, <<"n", ".", "t", "x", "t">>),
      pdf_folder \o <<"_", "o", "l", "d">>,
      downloads_folder \o <<"_", "o", "l", "d", ".", "p", "d", "f">>,
      <<"/", "n", ".", "t", "x", "t">> }

\* (source, destination) of the moves
NotifiedMoves ==
    { <<os_path_join(downloads_folder, <<"n", ".", "t", "x", "t">>),
        os_path_join(pdf_folder, <<"x", ".", "p", "d", "f">>)>>,
      <<<<"/", "n", ".", "t", "x", "t">>, pdf_folder \o <<"_", "o", "l", "d">>>> }

\* the path lies inside the configured directory root
InsideRoot(path, root) == root # <<>> /\ StartsWith(path, root \o <<"/">>)

\* the file lies directly in the project file's directory
InProjectDir(path) == path[1] = "/" /\ \A k \in 2..Len(path) : path[k] # "/"

\* a watch reports the path: start() schedules the configured roots recursively
\* and the project file's directory non-recursively
Watched(path) ==
    \/ InsideRoot(path, handler_downloads_folder)
    \/ InsideRoot(path, handler_pdf_folder)
    \/ InProjectDir(path)

NoNotification ==
    [kind |-> "none", src |-> <<>>, dest |-> <<>>, downloads_root |-> <<>>,
     pdf_root |-> <<>>, outcome |-> "none"]

Handled(kind, src, dest, outcome) ==
    [kind |-> kind, src |-> src, dest |-> dest,
     downloads_root |-> handler_downloads_folder, pdf_root |-> handler_pdf_folder,
     outcome |-> outcome]

InitDispatchVars ==
    /\ handler_downloads_folder = downloads_folder
    /\ handler_pdf_folder = pdf_folder
    /\ recent_moves = {}
    /\ notified = NoNotification

\* update_paths, lines 228-235: os.path.abspath(path) if path else ""
UpdateHandlerPaths(downloads_root, pdf_root) ==
    /\ handler_downloads_folder' = downloads_root
    /\ handler_pdf_folder' = pdf_root
    /\ UNCHANGED <<recent_moves, notified>>

\* on_created, lines 69-75: "download" calls handle_new_download, "folder" emits
\* pdf_folder_changed
CreatedBranch(path, downloads_root, pdf_root) ==
    IF StartsWith(path, downloads_root) /\ EndsWithPdf(path) THEN "download"
    ELSE IF StartsWith(path, pdf_root) THEN "folder"
    ELSE "none"

\* on_deleted, lines 83-85
DeletedBranch(path, pdf_root) ==
    IF StartsWith(path, pdf_root) THEN "folder" ELSE "none"

\* on_moved, lines 104-106
MovedBranch(src, dest, pdf_root) ==
    IF StartsWith(src, pdf_root) \/ StartsWith(dest, pdf_root) THEN "folder" ELSE "none"

\* on_created(event) for a file
CreatedNotified(path) ==
    /\ Watched(path)
    /\ notified' = Handled("created", path, <<>>,
                           CreatedBranch(path, handler_downloads_folder, handler_pdf_folder))
    /\ UNCHANGED <<handler_downloads_folder, handler_pdf_folder, recent_moves>>

\* on_deleted(event) for a file
DeletedNotified(path) ==
    /\ Watched(path)
    /\ notified' = Handled("deleted", path, <<>>, DeletedBranch(path, handler_pdf_folder))
    /\ UNCHANGED <<handler_downloads_folder, handler_pdf_folder, recent_moves>>

\* on_moved(event) for a file: the debounce of lines 92-98, then the dispatch
MovedNotified(key) ==
    /\ Watched(key[1]) \/ Watched(key[2])
    /\ IF key \in recent_moves
       THEN /\ notified' = Handled("moved", key[1], key[2], "none")
            /\ UNCHANGED recent_moves
       ELSE /\ recent_moves' = recent_moves \cup {key}
            /\ notified' = Handled("moved", key[1], key[2],
                                   MovedBranch(key[1], key[2], handler_pdf_folder))
    /\ UNCHANGED <<handler_downloads_folder, handler_pdf_folder>>

\* two seconds pass without a move
WindowPasses ==
    /\ recent_moves # {}
    /\ recent_moves' = {}
    /\ UNCHANGED <<handler_downloads_folder, handler_pdf_folder, notified>>

(***************************************************************************)
(* The .title files of several PDFs: the path the engine writes, the path  *)
(* the engine reads and the path the consumer removes.                     *)
(***************************************************************************)
VARIABLES
    title_files,    \* .title path -> the PDF whose extraction it holds, <<>> if no such file
    last_access     \* the last access to a .title file

cacheVars == <<title_files, last_access>>

\* PDFs of the PDF folder; process_existing_pdfs and on_created take every name
\* whose lower-case form ends with .pdf
PdfPaths ==
    { os_path_join(pdf_folder, <<"a", ".", "p", "d", "f">>),
      os_path_join(pdf_folder, <<"a", ".", "P", "D", "F">>),
      os_path_join(pdf_folder, <<"b", ".", "p", "d", "f">>),
      os_path_join(os_path_join(pdf_folder, <<"s">>), <<"a", ".", "p", "d", "f">>) }

\* os.path.dirname: what precedes the last separator
dirname(path) ==
    LET sep == CHOOSE k \in 1..Len(path) :
                  path[k] = "/" /\ \A m \in (k + 1)..Len(path) : path[m] # "/"
    IN  IF sep = 1 THEN <<"/">> ELSE SubSeq(path, 1, sep - 1)

DotTitle == <<".", "t", "i", "t", "l", "e">>

\* get_title_from_text, lines 153-155: the path the extraction is written to
written_cache_file_path(pdf_path) ==
    os_path_join(dirname(pdf_path), splitext_root(basename(pdf_path)) \o DotTitle)

\* match_pdf_to_metadata, lines 247-249: the path the engine reads
read_cache_file_path(pdf_path) ==
    os_path_join(dirname(pdf_path), splitext_root(basename(pdf_path)) \o DotTitle)

\* _handle_successful_match, lines 201-202: the path the consumer removes
title_file_path(pdf_path) ==
    os_path_join(dirname(pdf_path), splitext_root(basename(pdf_path)) \o DotTitle)

TitlePaths ==
    {written_cache_file_path(q) : q \in PdfPaths}
    \cup {read_cache_file_path(q) : q \in PdfPaths}
    \cup {title_file_path(q) : q \in PdfPaths}

NoAccess == [kind |-> "none", pdf |-> <<>>, path |-> <<>>, writer |-> <<>>]

InitCacheVars ==
    /\ title_files = [path \in TitlePaths |-> <<>>]
    /\ last_access = NoAccess

\* step 3 of match_pdf_to_metadata on a PDF: the .title file is read if it
\* exists; otherwise get_title_from_text writes it, unless the write fails
EngineStep3(pdf_path, wr) ==
    IF title_files[read_cache_file_path(pdf_path)] # <<>>
    THEN /\ last_access' = [kind |-> "read", pdf |-> pdf_path,
                            path |-> read_cache_file_path(pdf_path),
                            writer |-> title_files[read_cache_file_path(pdf_path)]]
         /\ UNCHANGED title_files
    ELSE /\ title_files' = IF wr
                           THEN [title_files EXCEPT ![written_cache_file_path(pdf_path)] = pdf_path]
                           ELSE title_files
         /\ last_access' = [kind |-> "write", pdf |-> pdf_path,
                            path |-> written_cache_file_path(pdf_path),
                            writer |-> IF wr THEN pdf_path ELSE <<>>]

\* _handle_successful_match, lines 200-208: the PDF's .title file is removed
InvalidateTitle(pdf_path) ==
    /\ title_files' = [title_files EXCEPT ![title_file_path(pdf_path)] = <<>>]
    /\ last_access' = [kind |-> "remove", pdf |-> pdf_path,
                       path |-> title_file_path(pdf_path),
                       writer |-> title_files[title_file_path(pdf_path)]]

(***************************************************************************)
(* Specifications.  Each holds the variables of the other parts fixed.     *)
(***************************************************************************)
vars == <<matchVars, watchVars, debounceVars, modifyVars, consumerVars, folderVars, normVars,
          monitorVars, seqVars, dispatchVars, cacheVars>>

IdleWatchVars == InitWatchVars /\ file_operation = "Move"

IdleMatchVars ==
    /\ pdf = CHOOSE q \in PdfPool : TRUE
    /\ metadata_set = <<>>
    /\ sidecar = NoSidecar
    /\ call = NoCall
    /\ fbm = NoFbm

\* the matching engine
Init == InitMatchVars /\ IdleWatchVars /\ InitDebounceVars /\ InitModifyVars /\ InitConsumerVars /\ InitFolderVars /\ InitSeqVars /\ InitDispatchVars /\ InitCacheVars /\ InitNormVars /\ InitMonitorVars

Next ==
    \/ MatchPdf /\ UNCHANGED <<watchVars, debounceVars, modifyVars, consumerVars, folderVars, normVars, monitorVars, seqVars, dispatchVars, cacheVars>>
    \/ LoadMetadata /\ UNCHANGED <<watchVars, debounceVars, modifyVars, consumerVars, folderVars, normVars, monitorVars, seqVars, dispatchVars, cacheVars>>
    \/ RemoveSidecar /\ UNCHANGED <<watchVars, debounceVars, modifyVars, consumerVars, folderVars, normVars, monitorVars, seqVars, dispatchVars, cacheVars>>

Spec == Init /\ [][Next]_vars

\* _find_best_match applied to drawn inputs
InitFind ==
    /\ pdf = CHOOSE q \in PdfPool : TRUE
    /\ metadata_set \in RecordLists
    /\ sidecar = NoSidecar
    /\ call = NoCall
    /\ fbm = NoFbm
    /\ IdleWatchVars /\ InitDebounceVars /\ InitModifyVars /\ InitConsumerVars /\ InitFolderVars /\ InitSeqVars /\ InitDispatchVars /\ InitCacheVars /\ InitNormVars /\ InitMonitorVars

NextFind ==
    \/ ApplyFindBestMatch /\ UNCHANGED <<watchVars, debounceVars, modifyVars, consumerVars, folderVars, normVars, monitorVars, seqVars, dispatchVars, cacheVars>>
    \/ LoadMetadata /\ UNCHANGED <<watchVars, debounceVars, modifyVars, consumerVars, folderVars, normVars, monitorVars, seqVars, dispatchVars, cacheVars>>

SpecFind == InitFind /\ [][NextFind]_vars

\* the watcher's subscriptions
InitMonitor ==
    /\ IdleMatchVars /\ IdleWatchVars /\ InitDebounceVars /\ InitModifyVars
    /\ InitConsumerVars /\ InitFolderVars /\ InitSeqVars /\ InitDispatchVars /\ InitCacheVars /\ InitNormVars
    /\ root_status \in RootStates
    /\ downloads_folder_accessible = FALSE
    /\ pdf_folder_accessible = FALSE
    /\ observer = "none"
    /\ scheduled = {}
    /\ seen_status = root_status
    /\ orphaned = FALSE
    /\ ops = NoOps

NextMonitor ==
    \/ \E r \in Roots, st \in {"ok", "noaccess", "missing", "unset"} :
          ChangeRoot(r, st) /\ UNCHANGED <<matchVars, watchVars, debounceVars, modifyVars, consumerVars, folderVars, normVars, seqVars, dispatchVars, cacheVars>>
    \/ \E started \in BOOLEAN : update_paths(started) /\ UNCHANGED <<matchVars, watchVars, debounceVars, modifyVars, consumerVars, folderVars, normVars, seqVars, dispatchVars, cacheVars>>
    \/ \E started \in BOOLEAN : start(started) /\ UNCHANGED <<matchVars, watchVars, debounceVars, modifyVars, consumerVars, folderVars, normVars, seqVars, dispatchVars, cacheVars>>
    \/ stop /\ UNCHANGED <<matchVars, watchVars, debounceVars, modifyVars, consumerVars, folderVars, normVars, seqVars, dispatchVars, cacheVars>>

SpecMonitor == InitMonitor /\ [][NextMonitor]_vars

\* the handler's dispatch, with both roots configured at first
InitDispatch == IdleMatchVars /\ IdleWatchVars /\ InitDebounceVars /\ InitModifyVars /\ InitConsumerVars /\ InitFolderVars /\ InitSeqVars /\ InitDispatchVars /\ InitCacheVars /\ InitNormVars /\ InitMonitorVars

NextDispatch ==
    \/ \E downloads_root \in {downloads_folder, <<>>}, pdf_root \in {pdf_folder, <<>>} :
          UpdateHandlerPaths(downloads_root, pdf_root) /\ UNCHANGED <<matchVars, watchVars, debounceVars, modifyVars, consumerVars, folderVars, normVars, monitorVars, seqVars, cacheVars>>
    \/ \E path \in NotifiedPaths : CreatedNotified(path) /\ UNCHANGED <<matchVars, watchVars, debounceVars, modifyVars, consumerVars, folderVars, normVars, monitorVars, seqVars, cacheVars>>
    \/ \E path \in NotifiedPaths : DeletedNotified(path) /\ UNCHANGED <<matchVars, watchVars, debounceVars, modifyVars, consumerVars, folderVars, normVars, monitorVars, seqVars, cacheVars>>
    \/ \E key \in NotifiedMoves : MovedNotified(key) /\ UNCHANGED <<matchVars, watchVars, debounceVars, modifyVars, consumerVars, folderVars, normVars, monitorVars, seqVars, cacheVars>>
    \/ WindowPasses /\ UNCHANGED <<matchVars, watchVars, debounceVars, modifyVars, consumerVars, folderVars, normVars, monitorVars, seqVars, cacheVars>>

SpecDispatch == InitDispatch /\ [][NextDispatch]_vars

\* the .title files of the PDFs of one folder tree
InitCache == InitDispatch

NextCache ==
    \/ \E pdf_path \in PdfPaths, wr \in BOOLEAN : EngineStep3(pdf_path, wr) /\ UNCHANGED <<matchVars, watchVars, debounceVars, modifyVars, consumerVars, folderVars, normVars, monitorVars, seqVars, dispatchVars>>
    \/ \E pdf_path \in PdfPaths : InvalidateTitle(pdf_path) /\ UNCHANGED <<matchVars, watchVars, debounceVars, modifyVars, consumerVars, folderVars, normVars, monitorVars, seqVars, dispatchVars>>

SpecCache == InitCache /\ [][NextCache]_vars

\* normalize_text on every string of up to MaxTextLen characters
InitNormalize ==
    /\ IdleMatchVars /\ IdleWatchVars /\ InitDebounceVars /\ InitModifyVars
    /\ InitConsumerVars /\ InitFolderVars /\ InitSeqVars /\ InitDispatchVars /\ InitCacheVars /\ InitMonitorVars
    /\ text_in \in SeqsUpTo(TextChars, MaxTextLen)
    /\ normalized = NotNormalized

NextNormalize ==
    \/ ApplyNormalize /\ UNCHANGED <<matchVars, watchVars, debounceVars, modifyVars, consumerVars, folderVars, monitorVars, seqVars, dispatchVars, cacheVars>>
    \/ ApplyNormalizeAgain /\ UNCHANGED <<matchVars, watchVars, debounceVars, modifyVars, consumerVars, folderVars, monitorVars, seqVars, dispatchVars, cacheVars>>

SpecNormalize == InitNormalize /\ [][NextNormalize]_vars

\* the new-download pipeline
InitWatch == IdleMatchVars /\ InitWatchVars /\ InitDebounceVars /\ InitModifyVars /\ InitConsumerVars /\ InitFolderVars /\ InitSeqVars /\ InitDispatchVars /\ InitCacheVars /\ InitNormVars /\ InitMonitorVars

NextWatch ==
    \/ \E f \in DownloadFiles : Download(f) /\ UNCHANGED <<matchVars, debounceVars, modifyVars, consumerVars, folderVars, normVars, monitorVars, seqVars, dispatchVars, cacheVars>>
    \/ \E f \in DownloadFiles : Vanish(f) /\ UNCHANGED <<matchVars, debounceVars, modifyVars, consumerVars, folderVars, normVars, monitorVars, seqVars, dispatchVars, cacheVars>>
    \/ SetFileOperation /\ UNCHANGED <<matchVars, debounceVars, modifyVars, consumerVars, folderVars, normVars, monitorVars, seqVars, dispatchVars, cacheVars>>
    \/ \E t \in Threads, f \in DownloadFiles :
          on_created(t, f) /\ UNCHANGED <<matchVars, debounceVars, modifyVars, consumerVars, folderVars, normVars, monitorVars, seqVars, dispatchVars, cacheVars>>
    \/ \E t \in Threads : AcquireLock(t) /\ UNCHANGED <<matchVars, debounceVars, modifyVars, consumerVars, folderVars, normVars, monitorVars, seqVars, dispatchVars, cacheVars>>
    \/ \E t \in Threads : CheckExists(t) /\ UNCHANGED <<matchVars, debounceVars, modifyVars, consumerVars, folderVars, normVars, monitorVars, seqVars, dispatchVars, cacheVars>>
    \/ \E t \in Threads : CheckAgain(t) /\ UNCHANGED <<matchVars, debounceVars, modifyVars, consumerVars, folderVars, normVars, monitorVars, seqVars, dispatchVars, cacheVars>>
    \/ \E t \in Threads, fault \in {"ok", "perm", "nodir"} :
          FileOperation(t, fault) /\ UNCHANGED <<matchVars, debounceVars, modifyVars, consumerVars, folderVars, normVars, monitorVars, seqVars, dispatchVars, cacheVars>>
    \/ \E t \in Threads : EmitPdfDetected(t) /\ UNCHANGED <<matchVars, debounceVars, modifyVars, consumerVars, folderVars, normVars, monitorVars, seqVars, dispatchVars, cacheVars>>

SpecWatch == InitWatch /\ [][NextWatch]_vars

\* a step of handle_new_download on some notification thread: while a thread
\* can take one, some thread is scheduled
HandlerStep ==
    /\ \E t \in Threads :
          \/ AcquireLock(t) \/ CheckExists(t) \/ CheckAgain(t)
          \/ \E fault \in {"ok", "perm", "nodir"} : FileOperation(t, fault)
          \/ EmitPdfDetected(t)
    /\ UNCHANGED <<matchVars, debounceVars, modifyVars, consumerVars, folderVars, normVars, monitorVars, seqVars, dispatchVars, cacheVars>>

\* a download arrives whose name a file of the PDF folder already has, in a run
\* without faults
NextOverwrite ==
    \/ PlaceInPdfFolder(PlainPdf) /\ UNCHANGED <<matchVars, debounceVars, modifyVars, consumerVars, folderVars, normVars, monitorVars, seqVars, dispatchVars, cacheVars>>
    \/ Download(PlainPdf) /\ UNCHANGED <<matchVars, debounceVars, modifyVars, consumerVars, folderVars, normVars, monitorVars, seqVars, dispatchVars, cacheVars>>
    \/ \E t \in Threads : on_created(t, PlainPdf) /\ UNCHANGED <<matchVars, debounceVars, modifyVars, consumerVars, folderVars, normVars, monitorVars, seqVars, dispatchVars, cacheVars>>
    \/ \E t \in Threads : AcquireLock(t) /\ UNCHANGED <<matchVars, debounceVars, modifyVars, consumerVars, folderVars, normVars, monitorVars, seqVars, dispatchVars, cacheVars>>
    \/ \E t \in Threads : CheckExists(t) /\ UNCHANGED <<matchVars, debounceVars, modifyVars, consumerVars, folderVars, normVars, monitorVars, seqVars, dispatchVars, cacheVars>>
    \/ \E t \in Threads : CheckAgain(t) /\ UNCHANGED <<matchVars, debounceVars, modifyVars, consumerVars, folderVars, normVars, monitorVars, seqVars, dispatchVars, cacheVars>>
    \/ \E t \in Threads : FileOperation(t, "ok") /\ UNCHANGED <<matchVars, debounceVars, modifyVars, consumerVars, folderVars, normVars, monitorVars, seqVars, dispatchVars, cacheVars>>
    \/ \E t \in Threads : EmitPdfDetected(t) /\ UNCHANGED <<matchVars, debounceVars, modifyVars, consumerVars, folderVars, normVars, monitorVars, seqVars, dispatchVars, cacheVars>>

SpecOverwrite == InitWatch /\ [][NextOverwrite]_vars

\* idle notification threads are interchangeable: the next notification is
\* given to the first of them
FirstIdleThread(t) == pc[t] = "idle" /\ \A u \in Threads : u < t => pc[u] # "idle"

\* the pipeline under the default configuration (Move), every handler scheduled
InitLock == InitWatch /\ file_operation = "Move"

NextLock ==
    \/ \E f \in DownloadFiles : Download(f) /\ UNCHANGED <<matchVars, debounceVars, modifyVars, consumerVars, folderVars, normVars, monitorVars, seqVars, dispatchVars, cacheVars>>
    \/ \E f \in DownloadFiles : Vanish(f) /\ UNCHANGED <<matchVars, debounceVars, modifyVars, consumerVars, folderVars, normVars, monitorVars, seqVars, dispatchVars, cacheVars>>
    \/ \E t \in Threads, f \in DownloadFiles :
          FirstIdleThread(t) /\ on_created(t, f) /\ UNCHANGED <<matchVars, debounceVars, modifyVars, consumerVars, folderVars, normVars, monitorVars, seqVars, dispatchVars, cacheVars>>
    \/ \E t \in Threads : AcquireLock(t) /\ UNCHANGED <<matchVars, debounceVars, modifyVars, consumerVars, folderVars, normVars, monitorVars, seqVars, dispatchVars, cacheVars>>
    \/ \E t \in Threads : CheckExists(t) /\ UNCHANGED <<matchVars, debounceVars, modifyVars, consumerVars, folderVars, normVars, monitorVars, seqVars, dispatchVars, cacheVars>>
    \/ \E t \in Threads : CheckAgain(t) /\ UNCHANGED <<matchVars, debounceVars, modifyVars, consumerVars, folderVars, normVars, monitorVars, seqVars, dispatchVars, cacheVars>>
    \/ \E t \in Threads, fault \in {"ok", "perm", "nodir"} :
          FileOperation(t, fault) /\ UNCHANGED <<matchVars, debounceVars, modifyVars, consumerVars, folderVars, normVars, monitorVars, seqVars, dispatchVars, cacheVars>>
    \/ \E t \in Threads : EmitPdfDetected(t) /\ UNCHANGED <<matchVars, debounceVars, modifyVars, consumerVars, folderVars, normVars, monitorVars, seqVars, dispatchVars, cacheVars>>

SpecWatchFair ==
    InitLock /\ [][NextLock]_vars /\ WF_vars(HandlerStep)

\* the new-download pipeline in a run without faults, while the user switches
\* the file operation; began_with keeps the value the sequence began under
InitSequence == InitWatch

NextSequence ==
    \/ Download(PlainPdf) /\ UNCHANGED began_with /\ UNCHANGED <<matchVars, debounceVars, modifyVars, consumerVars, folderVars, normVars, monitorVars, dispatchVars, cacheVars>>
    \/ \E t \in Threads : FirstIdleThread(t) /\ on_created(t, PlainPdf) /\ UNCHANGED began_with /\ UNCHANGED <<matchVars, debounceVars, modifyVars, consumerVars, folderVars, normVars, monitorVars, dispatchVars, cacheVars>>
    \/ \E t \in Threads : AcquireLock(t) /\ began_with' = file_operation /\ UNCHANGED <<matchVars, debounceVars, modifyVars, consumerVars, folderVars, normVars, monitorVars, dispatchVars, cacheVars>>
    \/ \E t \in Threads : CheckExists(t) /\ UNCHANGED began_with /\ UNCHANGED <<matchVars, debounceVars, modifyVars, consumerVars, folderVars, normVars, monitorVars, dispatchVars, cacheVars>>
    \/ \E t \in Threads : CheckAgain(t) /\ UNCHANGED began_with /\ UNCHANGED <<matchVars, debounceVars, modifyVars, consumerVars, folderVars, normVars, monitorVars, dispatchVars, cacheVars>>
    \/ \E t \in Threads : FileOperation(t, "ok") /\ UNCHANGED began_with /\ UNCHANGED <<matchVars, debounceVars, modifyVars, consumerVars, folderVars, normVars, monitorVars, dispatchVars, cacheVars>>
    \/ \E t \in Threads : EmitPdfDetected(t) /\ UNCHANGED began_with /\ UNCHANGED <<matchVars, debounceVars, modifyVars, consumerVars, folderVars, normVars, monitorVars, dispatchVars, cacheVars>>
    \/ SetFileOperation /\ UNCHANGED began_with /\ UNCHANGED <<matchVars, debounceVars, modifyVars, consumerVars, folderVars, normVars, monitorVars, dispatchVars, cacheVars>>

SpecSequence == InitSequence /\ [][NextSequence]_vars

\* the move debounce
InitDebounce == IdleMatchVars /\ IdleWatchVars /\ InitDebounceVars /\ InitModifyVars /\ InitConsumerVars /\ InitFolderVars /\ InitSeqVars /\ InitDispatchVars /\ InitCacheVars /\ InitNormVars /\ InitMonitorVars

\* time matters only between the first move notification and the end of the
\* last handler: before and after, only the clock would change
MoveActivity ==
    /\ SumLen(movedLog, MoveKeys) > 0
    /\ \/ SumLen(movedLog, MoveKeys) < MaxMoves
       \/ \E t \in MoveThreads : mpc[t] # "idle"

\* idle notification threads are interchangeable: the first one delivers
FirstIdleMoveThread(t) == \A u \in MoveThreads : u < t => mpc[u] # "idle"

NextDebounce ==
    \/ Tick /\ MoveActivity /\ UNCHANGED <<matchVars, watchVars, modifyVars, consumerVars, folderVars, normVars, monitorVars, seqVars, dispatchVars, cacheVars>>
    \/ \E t \in MoveThreads, k \in MoveKeys :
          FirstIdleMoveThread(t) /\ on_moved(t, k) /\ UNCHANGED <<matchVars, watchVars, modifyVars, consumerVars, folderVars, normVars, monitorVars, seqVars, dispatchVars, cacheVars>>
    \/ \E t \in MoveThreads : DebounceCheck(t) /\ UNCHANGED <<matchVars, watchVars, modifyVars, consumerVars, folderVars, normVars, monitorVars, seqVars, dispatchVars, cacheVars>>
    \/ \E t \in MoveThreads : DebounceRecord(t) /\ UNCHANGED <<matchVars, watchVars, modifyVars, consumerVars, folderVars, normVars, monitorVars, seqVars, dispatchVars, cacheVars>>
    \/ \E t \in MoveThreads : EmitFolderChanged(t) /\ UNCHANGED <<matchVars, watchVars, modifyVars, consumerVars, folderVars, normVars, monitorVars, seqVars, dispatchVars, cacheVars>>

SpecDebounce == InitDebounce /\ [][NextDebounce]_vars

\* the project-file debounce
InitModify == IdleMatchVars /\ IdleWatchVars /\ InitDebounceVars /\ InitModifyVars /\ InitConsumerVars /\ InitFolderVars /\ InitSeqVars /\ InitDispatchVars /\ InitCacheVars /\ InitNormVars /\ InitMonitorVars

\* time matters only between the first modify notification and the end of the
\* last handler
ModifyActivity ==
    /\ Len(modLog) > 0
    /\ \/ Len(modLog) < MaxModifies
       \/ \E t \in MoveThreads : modpc[t] # "idle"

FirstIdleModifyThread(t) == \A u \in MoveThreads : u < t => modpc[u] # "idle"

\* the clock is the only variable of the move debounce that changes here
TickModify ==
    /\ Tick
    /\ ModifyActivity
    /\ UNCHANGED <<matchVars, watchVars, modifyVars, consumerVars, folderVars, normVars, monitorVars, seqVars, dispatchVars, cacheVars>>

NextModify ==
    \/ TickModify
    \/ \E st \in ProjectFileStates :
          WriteProjectFile(st) /\ UNCHANGED <<matchVars, watchVars, debounceVars, consumerVars, folderVars, normVars, monitorVars, seqVars, dispatchVars, cacheVars>>
    \/ \E t \in MoveThreads, is_project_file \in BOOLEAN :
          /\ FirstIdleModifyThread(t)
          /\ on_modified(t, is_project_file)
          /\ UNCHANGED <<matchVars, watchVars, debounceVars, consumerVars, folderVars, normVars, monitorVars, seqVars, dispatchVars, cacheVars>>
    \/ \E t \in MoveThreads : ModifiedCheck(t) /\ UNCHANGED <<matchVars, watchVars, debounceVars, consumerVars, folderVars, normVars, monitorVars, seqVars, dispatchVars, cacheVars>>
    \/ \E t \in MoveThreads : ModifiedRecord(t) /\ UNCHANGED <<matchVars, watchVars, debounceVars, consumerVars, folderVars, normVars, monitorVars, seqVars, dispatchVars, cacheVars>>
    \/ \E t \in MoveThreads : SettleCheck(t) /\ UNCHANGED <<matchVars, watchVars, debounceVars, consumerVars, folderVars, normVars, monitorVars, seqVars, dispatchVars, cacheVars>>

SpecModify == InitModify /\ [][NextModify]_vars

\* the consumer: a file of the PDF folder, tagged or not, and a loaded project
InitConsumer ==
    /\ pdf \in PdfPool
    /\ metadata_set \in RecordLists
    /\ sidecar \in SidecarStates
    /\ call = NoCall
    /\ fbm = NoFbm
    /\ IdleWatchVars /\ InitDebounceVars /\ InitModifyVars /\ InitFolderVars /\ InitSeqVars /\ InitDispatchVars /\ InitCacheVars /\ InitNormVars /\ InitMonitorVars
    /\ pmid_hint = 0
    /\ tag \in {0} \cup TagPool
    /\ last = NoHandling

NextConsumer ==
    \/ \E pmid \in HintPool :
          set_pmid_hint(pmid) /\ UNCHANGED <<matchVars, watchVars, debounceVars, modifyVars, folderVars, normVars, monitorVars, seqVars, dispatchVars, cacheVars>>
    \/ on_pdf_detected /\ UNCHANGED <<watchVars, debounceVars, modifyVars, folderVars, normVars, monitorVars, seqVars, dispatchVars, cacheVars>>
    \/ process_existing_pdfs /\ UNCHANGED <<watchVars, debounceVars, modifyVars, folderVars, normVars, monitorVars, seqVars, dispatchVars, cacheVars>>
    \/ Redownload /\ UNCHANGED <<watchVars, debounceVars, modifyVars, folderVars, normVars, monitorVars, seqVars, dispatchVars, cacheVars>>

SpecConsumer == InitConsumer /\ [][NextConsumer]_vars

\* the two entrances for new input, in a run without faults: create
\* notifications in the downloads root, and the scan of a PDF folder whose file
\* the loaded project would match
ScanPdfs ==
    { p \in PdfPool : /\ p.name = T_abcdefghij \o <<".", "p", "d", "f">>
                      /\ p.title = <<" ">> \o T_abcdefghij \o <<" ">>
                      /\ p.text = "ok" }

ScanRecordLists == { ms \in RecordLists : Len(ms) = 1 /\ ms[1].pubMedIdentifier # 0 }

InitTagged ==
    /\ pdf \in ScanPdfs
    /\ metadata_set \in ScanRecordLists
    /\ sidecar = NoSidecar
    /\ call = NoCall
    /\ fbm = NoFbm
    /\ InitWatchVars /\ InitDebounceVars /\ InitModifyVars /\ InitFolderVars /\ InitSeqVars /\ InitDispatchVars /\ InitCacheVars /\ InitNormVars /\ InitMonitorVars
    /\ pmid_hint = 0
    /\ tag \in {0} \cup TagPool
    /\ last = NoHandling

NextTagged ==
    \/ \E f \in DownloadFiles : Download(f) /\ UNCHANGED <<matchVars, debounceVars, modifyVars, consumerVars, folderVars, normVars, monitorVars, seqVars, dispatchVars, cacheVars>>
    \/ \E t \in Threads, f \in DownloadFiles :
          on_created(t, f) /\ UNCHANGED <<matchVars, debounceVars, modifyVars, consumerVars, folderVars, normVars, monitorVars, seqVars, dispatchVars, cacheVars>>
    \/ \E t \in Threads : AcquireLock(t) /\ UNCHANGED <<matchVars, debounceVars, modifyVars, consumerVars, folderVars, normVars, monitorVars, seqVars, dispatchVars, cacheVars>>
    \/ \E t \in Threads : CheckExists(t) /\ UNCHANGED <<matchVars, debounceVars, modifyVars, consumerVars, folderVars, normVars, monitorVars, seqVars, dispatchVars, cacheVars>>
    \/ \E t \in Threads : CheckAgain(t) /\ UNCHANGED <<matchVars, debounceVars, modifyVars, consumerVars, folderVars, normVars, monitorVars, seqVars, dispatchVars, cacheVars>>
    \/ \E t \in Threads : FileOperation(t, "ok") /\ UNCHANGED <<matchVars, debounceVars, modifyVars, consumerVars, folderVars, normVars, monitorVars, seqVars, dispatchVars, cacheVars>>
    \/ \E t \in Threads : EmitPdfDetected(t) /\ UNCHANGED <<matchVars, debounceVars, modifyVars, consumerVars, folderVars, normVars, monitorVars, seqVars, dispatchVars, cacheVars>>
    \/ process_existing_pdfs /\ UNCHANGED <<watchVars, debounceVars, modifyVars, folderVars, normVars, monitorVars, seqVars, dispatchVars, cacheVars>>

SpecTagged == InitTagged /\ [][NextTagged]_vars

\* the PDF root's notifications: the pipeline moves or copies a download into
\* the PDF root, in a run without faults, while others create and delete files
InitFolder == InitWatch

NextFolder ==
    \/ Download(PlainPdf) /\ UNCHANGED <<matchVars, debounceVars, modifyVars, consumerVars, folderVars, normVars, monitorVars, seqVars, dispatchVars, cacheVars>>
    \/ \E t \in Threads : on_created(t, PlainPdf) /\ UNCHANGED <<matchVars, debounceVars, modifyVars, consumerVars, folderVars, normVars, monitorVars, seqVars, dispatchVars, cacheVars>>
    \/ \E t \in Threads : AcquireLock(t) /\ UNCHANGED <<matchVars, debounceVars, modifyVars, consumerVars, folderVars, normVars, monitorVars, seqVars, dispatchVars, cacheVars>>
    \/ \E t \in Threads : CheckExists(t) /\ UNCHANGED <<matchVars, debounceVars, modifyVars, consumerVars, folderVars, normVars, monitorVars, seqVars, dispatchVars, cacheVars>>
    \/ \E t \in Threads : CheckAgain(t) /\ UNCHANGED <<matchVars, debounceVars, modifyVars, consumerVars, folderVars, normVars, monitorVars, seqVars, dispatchVars, cacheVars>>
    \/ \E t \in Threads : FileOperation(t, "ok") /\ UNCHANGED <<matchVars, debounceVars, modifyVars, consumerVars, folderVars, normVars, monitorVars, seqVars, dispatchVars, cacheVars>>
    \/ \E t \in Threads : EmitPdfDetected(t) /\ UNCHANGED <<matchVars, debounceVars, modifyVars, consumerVars, folderVars, normVars, monitorVars, seqVars, dispatchVars, cacheVars>>
    \/ \E f \in DownloadFiles : OwnWriteCreated(f) /\ UNCHANGED <<matchVars, watchVars, debounceVars, modifyVars, consumerVars, normVars, monitorVars, seqVars, dispatchVars, cacheVars>>
    \/ \E path \in FolderPaths : OtherCreated(path) /\ UNCHANGED <<matchVars, watchVars, debounceVars, modifyVars, consumerVars, normVars, monitorVars, seqVars, dispatchVars, cacheVars>>
    \/ \E path \in FolderPaths : OtherDeleted(path) /\ UNCHANGED <<matchVars, watchVars, debounceVars, modifyVars, consumerVars, normVars, monitorVars, seqVars, dispatchVars, cacheVars>>

SpecFolder == InitFolder /\ [][NextFolder]_vars

(***************************************************************************)
(* Properties.                                                             *)
(***************************************************************************)

\* the trimmed /Title has at least 8 characters
LongEmbeddedTitle == pdf.readable /\ Len(Strip(pdf.title)) >= 8

\* the last invocation got past the filename step
CallReachedStep3 == call.done /\ call.filenameTried /\ call.via # "filename"

\* C1: for a PDF whose embedded title has trimmed length >= 8 the engine returns
\* exactly find_best_match(title, records, 0.9); the filename is not tried, the
\* sidecar is neither read nor created and extraction is not invoked.
C1_TitleStepIsTerminal ==
    (call.done /\ LongEmbeddedTitle) =>
        /\ call.result = _find_best_match(Strip(pdf.title), call.records, TitleThreshold)
        /\ call.via \in {"title", "none"}
        /\ ~call.filenameTried
        /\ ~call.sidecarRead
        /\ ~call.extractCalled
        /\ call.after = call.before

\* C1 witness: the title misses although the filename would match
C1_Witness ==
    /\ call.done /\ LongEmbeddedTitle
    /\ call.result = 0
    /\ _find_best_match(filename_title(pdf.name), call.records, FilenameThreshold) # 0
    /\ call.before.exists

\* C5: an invocation that finds a sidecar (with a title or empty) never invokes
\* content extraction, whatever the record list.
C5_SidecarStopsExtraction ==
    (call.done /\ call.before.exists) => (~call.extractCalled /\ ~call.lxInvoked)

\* C5 witness: step 3 is reached with the empty sentinel in place
C5_Witness ==
    /\ CallReachedStep3
    /\ call.before.exists /\ call.before.content = <<>>
    /\ call.sidecarRead
    /\ Len(call.records) > 0

\* C6: whenever step 3 is reached for a PDF without a sidecar, extraction is
\* invoked and afterwards a sidecar exists that holds the extracted title or
\* the empty string.
C6_ExtractionAlwaysCached ==
    (CallReachedStep3 /\ ~call.before.exists) =>
        /\ call.extractCalled
        /\ call.after.exists
        /\ call.after.content \in {call.extracted, <<>>}

\* the filename without its ".pdf", with "_" and "-" turned into spaces
C7_Candidate(name) ==
    [k \in 1..(Len(name) - 4) |-> IF name[k] \in {"_", "-"} THEN " " ELSE name[k]]

\* C7: when step 1 does not apply, the candidate is derived from the filename
\* and a record found at threshold 0.6 is returned without reading or creating
\* a sidecar and without extraction; step 3 runs only when none was found.
C7_FilenameStep ==
    (call.done /\ ~LongEmbeddedTitle) =>
        LET m == _find_best_match(C7_Candidate(pdf.name), call.records,
                                  FilenameThreshold)
        IN  /\ call.filenameTried
            /\ m # 0 => /\ call.result = m
                        /\ call.via = "filename"
                        /\ ~call.sidecarRead
                        /\ ~call.extractCalled
                        /\ call.after = call.before
            /\ CallReachedStep3 => m = 0

\* C7 witness: a filename match at exactly 0.6, with characters replaced
C7_Witness ==
    /\ call.done /\ ~LongEmbeddedTitle
    /\ call.via = "filename"
    /\ \E k \in 1..Len(pdf.name) : pdf.name[k] \in {"_", "-"}
    /\ ~call.before.exists

\* C8: when step 3 finds a sidecar, a non-empty content gives exactly
\* find_best_match(content, records, 0.9) and an empty content gives no match.
C8_SidecarDecides ==
    (CallReachedStep3 /\ call.sidecarRead) =>
        IF call.before.content # <<>>
        THEN call.result = _find_best_match(call.before.content, call.records,
                                            TitleThreshold)
        ELSE call.result = 0

\* the similarity score of record k for the last _find_best_match application
FbmScore(k) == ComputeSimilarity(fbm.candidate, fbm.records[k])

\* C9: find_best_match returns a record whose score reaches the threshold and
\* is the maximum over all records, the first in input order among those tied
\* at the maximum; it returns no match exactly when no record reaches the
\* threshold or the candidate is empty.
C9_BestMatch ==
    fbm.done =>
        LET n == Len(fbm.records)
            r == fbm.result
        IN  /\ r \in 0..n
            /\ r # 0 => /\ AtLeast(FbmScore(r), fbm.threshold)
                        /\ \A k \in 1..n : ~Greater(FbmScore(k), FbmScore(r))
                        /\ \A k \in 1..(r - 1) : Greater(FbmScore(r), FbmScore(k))
            /\ r = 0 <=> \/ fbm.candidate = <<>>
                         \/ \A k \in 1..n : ~AtLeast(FbmScore(k), fbm.threshold)

\* C9 witness: two records tie at the maximum and the first is returned
C9_Witness ==
    /\ fbm.done
    /\ fbm.result # 0
    /\ \E k \in (fbm.result + 1)..Len(fbm.records) :
          /\ FbmScore(k) = FbmScore(fbm.result)
          /\ fbm.records[k] # fbm.records[fbm.result]

AllIdle == \A t \in Threads : pc[t] = "idle"

\* C2: any number of create notifications for one downloaded file, on any
\* interleaving of the notification threads, give exactly one move and exactly
\* one PdfArrived (Move mode, the file and the operation left undisturbed).
C2_OneMoveOneEvent ==
    \A f \in DownloadFiles :
        (/\ AllIdle
         /\ ~IsTagged(f)
         /\ arrivals[f] = 1
         /\ notifs[f] >= 1
         /\ ~disturbed[f]
         /\ modesSeen = {"Move"})
        => (fileOps[f] = 1 /\ pdf_detected[f] = 1)

\* C2 witness: every notification of the budget went to the one file
C2_Witness ==
    /\ AllIdle
    /\ arrivals[PlainPdf] = 1
    /\ notifs[PlainPdf] = MaxNotifs
    /\ ~disturbed[PlainPdf]
    /\ modesSeen = {"Move"}
    /\ fileOps[PlainPdf] = 1 /\ pdf_detected[PlainPdf] = 1

\* C3: in every mode, for a single arrival of a file at most one file operation
\* is performed and at most one PdfArrived is emitted.
C3_NoDoubleProcessing ==
    \A f \in DownloadFiles :
        arrivals[f] <= 1 => (fileOps[f] <= 1 /\ pdf_detected[f] <= 1)

InSequence(t) == pc[t] \in {"check1", "sleep", "op", "emit"}

\* C4: at most one thread is inside the new-download sequence, and it holds
\* the processing lock for the whole sequence.
C4_MutualExclusion ==
    /\ \A t, u \in Threads : (InSequence(t) /\ InSequence(u)) => t = u
    /\ \A t \in Threads : InSequence(t) => processing_lock = t

\* C4 witness: one thread sleeps in the sequence while two wait, on two paths
C4_Witness ==
    \E t, u, w \in Threads :
        /\ pc[t] = "sleep" /\ pc[u] = "acquire" /\ pc[w] = "acquire"
        /\ u # w
        /\ src_path[u] # src_path[t]
        /\ src_path[w] = src_path[t]

\* the path lies inside the directory root
LiesUnder(path, root) == StartsWith(path, root \o <<"/">>)

KeyUnderPdfRoot(k) == LiesUnder(k[1], pdf_folder) \/ LiesUnder(k[2], pdf_folder)

\* two move notifications for k were handled one after the other
TwoMovesHandled(k) ==
    /\ Len(movedLog[k]) = 2
    /\ ~overlapped[k]
    /\ \A t \in MoveThreads : mpc[t] = "idle"

\* C10: two move notifications with the same (source, destination) under the
\* PDF root give exactly one PdfFolderChanged when less than 2 seconds apart
\* and exactly two when 3 seconds apart.
C10_MoveDebounce ==
    \A k \in MoveKeys :
        (KeyUnderPdfRoot(k) /\ TwoMovesHandled(k)) =>
            LET gap == movedLog[k][2] - movedLog[k][1]
            IN  /\ gap < DebounceWindow => pdf_folder_changed[k] = 1
                /\ gap = 6 => pdf_folder_changed[k] = 2

\* C10 witness: the second notification came 1.5 seconds after the first
C10_Witness ==
    \E k \in MoveKeys :
        /\ KeyUnderPdfRoot(k) /\ TwoMovesHandled(k)
        /\ movedLog[k][2] - movedLog[k][1] = 3
        /\ pdf_folder_changed[k] = 1

\* the move notifications for k were handled one after the other, each less
\* than 2 seconds after the one before
UnbrokenStream(k) ==
    /\ Len(movedLog[k]) >= 1
    /\ ~overlapped[k]
    /\ \A t \in MoveThreads : mpc[t] = "idle"
    /\ \A n \in 2..Len(movedLog[k]) :
          movedLog[k][n] - movedLog[k][n - 1] < DebounceWindow

\* C11: a move notification is discarded whenever any notification with the
\* same key was seen less than 2 seconds before, propagated or not: an unbroken
\* stream of repeats propagates only its first notification.
C11_StreamPropagatesFirstOnly ==
    \A k \in MoveKeys :
        (KeyUnderPdfRoot(k) /\ UnbrokenStream(k)) => pdf_folder_changed[k] = 1

\* C12: the debounce check-and-record is atomic: two move notifications with
\* the same key delivered less than 2 seconds apart, on any threads and in any
\* interleaving, propagate exactly once.
C12_CheckAndRecordAtomic ==
    \A k \in MoveKeys :
        (/\ KeyUnderPdfRoot(k)
         /\ Len(movedLog[k]) = 2
         /\ movedLog[k][2] - movedLog[k][1] < DebounceWindow
         /\ \A t \in MoveThreads : mpc[t] = "idle")
        => pdf_folder_changed[k] = 1

ModifyIdle == \A t \in MoveThreads : modpc[t] = "idle"

ContentSeen == {n \in DOMAIN sizeSeen : sizeSeen[n] = "content"}

\* C13: two modify notifications for the project file less than 2 seconds
\* apart, handled without a race on the debounce state and with the file
\* holding content at the settle check, give exactly one ProjectFileChanged;
\* and a settle check that finds size 0 (or no file) emits nothing: the events
\* emitted are exactly the settle checks that found content.
C13_ModifyDebounce ==
    /\ (/\ ModifyIdle
        /\ ~modRaced
        /\ Len(modLog) = 2
        /\ modLog[2] - modLog[1] < DebounceWindow
        /\ sizeSeen # <<>>
        /\ sizeSeen[1] = "content")
       => project_file_changed = 1
    /\ project_file_changed = Cardinality(ContentSeen)

\* C13 witness: the second notification came 0.5 seconds after the first, the
\* file had content
C13_Witness ==
    /\ ModifyIdle
    /\ ~modRaced
    /\ Len(modLog) = 2
    /\ modLog[2] - modLog[1] = 1
    /\ sizeSeen = <<"content">>
    /\ project_file_changed = 1

\* C14: every PdfArrived is emitted after a completed move/copy of a downloads
\* file, with the PDF folder joined with the file's own name as its path; the
\* operation on an undisturbed single arrival leaves no source in Move mode
\* and leaves the source in Copy mode.
C14_ArrivedAfterOperation ==
    /\ \A f \in DownloadFiles : pdf_detected[f] <= fileOps[f]
    /\ emitted = {os_path_join(pdf_folder, f) : f \in {g \in DownloadFiles : pdf_detected[g] > 0}}
    /\ \A f \in DownloadFiles :
          (fileOps[f] > 0 /\ arrivals[f] = 1 /\ ~disturbed[f]) =>
              /\ pf[f] = 1
              /\ modesSeen = {"Move"} => dl[f] = 0
              /\ modesSeen = {"Copy"} => dl[f] = 1

\* C14 witness: a copy was announced, the source is still in the downloads root
C14_Witness ==
    /\ pdf_detected[PlainPdf] = 1
    /\ fileOps[PlainPdf] = 1
    /\ modesSeen = {"Copy"}
    /\ ~disturbed[PlainPdf]
    /\ dl[PlainPdf] = 1 /\ pf[PlainPdf] = 1
    /\ emitted = {<<"/", "p", "/", "a", ".", "p", "d", "f">>}

\* C15: each failed move/copy (permission denied, disk full) emits exactly
\* one error event and nothing else does; the failed handling performs no
\* operation and emits no PdfArrived, the source stays in the downloads root,
\* and the operation is not tried again unless another notification arrives.
C15_FailureReported ==
    /\ error_occurred = failures[PlainPdf] + failures[TaggedPdf]
    /\ \A f \in DownloadFiles :
          (failures[f] > 0 /\ notifs[f] = 1) =>
              /\ failures[f] = 1
              /\ fileOps[f] = 0 /\ pdf_detected[f] = 0
              /\ ~vanished[f] => dl[f] # 0

\* C15 witness: the only notification for the file met a failure
C15_Witness ==
    /\ AllIdle
    /\ notifs[PlainPdf] = 1
    /\ failures[PlainPdf] = 1
    /\ error_occurred = 1
    /\ dl[PlainPdf] = 1
    /\ fileOps[PlainPdf] = 0 /\ pdf_detected[PlainPdf] = 0

C17_TaggedNeverNewInput ==
    /\ fileOps[TaggedPdf] = 0 /\ pdf_detected[TaggedPdf] = 0 /\ pf[TaggedPdf] = 0
    /\ (last.kind = "scan" /\ last.name # pdf.name) =>
          /\ ~last.engine /\ ~last.matched /\ ~last.renamed
          /\ current_name(pdf, tag) = last.name

\* a notification for the tagged download was handled to its end, and the scan
\* met a file bearing the prefix
C17_Witness ==
    /\ arrivals[TaggedPdf] = 1 /\ notifs[TaggedPdf] >= 1 /\ AllIdle
    /\ last.kind = "scan" /\ last.name = tagged_name(111, pdf.name)

\* C18: every create or delete notification for a file under the PDF root
\* emits PdfFolderChanged, except that the new-download pipeline's own write
\* into the PDF root emits none.  As claimed; on_created has no exception for
\* the pipeline's write.  (Move notifications are the subject of C10.)
C18_FolderChangedExceptOwnWrite ==
    /\ other_emits = other_notified
    /\ own_emits = 0

\* C19: when a manual hint identifier is set, the very next arriving PDF is
\* renamed with that identifier without the matching cascade being run, and the
\* hint is then cleared, so that one PDF is associated per hint setting.  As
\* claimed; the code returns before it looks at the hint when no metadata is
\* loaded, and keeps the hint when the rename fails.
C19_HintForcesNextArrival ==
    (last.kind = "arrival" /\ last.hint # 0) =>
        /\ last.renamed
        /\ last.id = last.hint
        /\ ~last.engine
        /\ last.hintAfter = 0

\* C20: the consumer removes a PDF's .title file only once the PDF has been
\* matched and renamed with the identifier: a PDF that was matched but not
\* renamed (match without identifier, or rename failure) still has the .title
\* file it had when the match was handed over.  As claimed; the code removes the
\* file before it renames.
C20_SidecarRemovedOnlyAfterRename ==
    (last.kind # "none" /\ last.matched /\ ~last.renamed) =>
        last.sidecarLeft = last.sidecarFound

\* C26: in the new-download sequence the ProcessingLock is released before
\* PdfArrived is emitted: every step that emits PdfArrived starts with the lock
\* free.  As claimed; the code emits inside the with block.
C26_ReleasedBeforeEmit ==
    [][(pdf_detected' # pdf_detected) => processing_lock = 0]_vars

\* C27: every new-download sequence that begins runs to its end and releases
\* the ProcessingLock on every exit path, so a create notification waiting for
\* the lock is handled at some time: the lock is held only by a thread inside
\* the with block, and whenever a handler is running, all handlers that were
\* entered have returned at some later time.
C27_SequenceCompletes ==
    /\ [](\A t \in Threads : processing_lock = t => pc[t] \in {"check1", "sleep", "op", "emit"})
    /\ [](AllIdle => processing_lock = 0)
    /\ (~AllIdle) ~> AllIdle

\* a notification waits for the lock another handler holds
C27_Witness ==
    \E t, u \in Threads : t # u /\ pc[t] = "acquire" /\ processing_lock = u

\* C28: a file-operation failure is silenced only when the source file has
\* disappeared: a step in which the move or copy of an untagged file fails while
\* the source still exists emits an error event.  As claimed; the code silences
\* every FileNotFoundError, also the one raised for a missing PDF folder.
C28_SilencedOnlyIfSourceGone ==
    [][\A t \in Threads :
          (/\ pc[t] = "op" /\ pc'[t] = "idle"
           /\ ~IsTagged(src_path[t])
           /\ dl[src_path[t]] # 0
           /\ fileOps' = fileOps)
          => error_occurred' = error_occurred + 1]_vars

\* C30: handling a new download never destroys an existing file of the PDF
\* folder: a file the PDF folder holds keeps its content in every step.  As
\* claimed; shutil.move and shutil.copy2 replace a destination file of the
\* same name.
C30_ExistingFileKept ==
    [][\A f \in DownloadFiles : pf[f] # 0 => pf'[f] = pf[f]]_vars

\* C29: no project-file change is lost to the debounce: when the handlers have
\* settled and the project file holds content, the last write that left content
\* and was followed by a modify notification has been followed by a
\* ProjectFileChanged.  As claimed; a notification inside the 2-second window
\* of one whose settle check found size 0 is discarded.
C29_NoChangeLost ==
    ~(ModifyIdle /\ project_file = "content" /\ unreported = "notified")

\* the readable PDF of the same name that has no /Title and no text
Untitled(p) == [p EXCEPT !.readable = TRUE, !.title = <<>>, !.text = "empty"]

\* what the invocation recorded in call is what the engine does on p
SameAsOn(p) ==
    \E rd \in BOOLEAN :
    \E o \in {match_pdf_to_metadata(p, call.records, call.before,
                                     [kind |-> "none", text |-> <<>>], TRUE, rd)} :
        /\ call.result = o.result /\ call.via = o.via
        /\ call.filenameTried = o.filenameTried
        /\ call.sidecarRead = o.sidecarRead
        /\ call.extractCalled = o.extractCalled
        /\ call.lxInvoked = o.lxInvoked
        /\ call.after = o.sidecar

\* C23: no exception escapes a match invocation: a .title file that cannot be
\* read or decoded, and a failing langextract, give no match and leave the
\* .title file as it was found or empty; a PDF that cannot be opened is treated
\* as one without /Title: the filename step is tried and the invocation does
\* what it does for the untitled PDF of the same name.
C23_FailuresGiveNoMatch ==
    call.done =>
        /\ (call.filenameTried /\ call.via # "filename" /\ call.before.exists
             /\ ~call.sidecarRead)
              => (call.result = 0 /\ call.after = call.before)
        /\ (call.lxInvoked /\ call.extracted = <<>>) => call.result = 0
        /\ ~pdf.readable => (call.filenameTried /\ SameAsOn(Untitled(pdf)))

\* an invocation on a PDF that cannot be opened, whose name matches nothing
\* and whose .title file cannot be decoded
C23_Witness ==
    /\ call.done /\ ~pdf.readable /\ call.via = "none"
    /\ call.before = UndecodableSidecar
    /\ metadata_set # <<>>

\* the unaccented lower-case letter a letter is a variant of
BaseChar(c) ==
    IF c \in {"D", "d_stroke"} THEN <<"d">>
    ELSE IF c \in {"E", "e_acute"} THEN <<"e">>
    ELSE <<c>>

\* C24: normalization is idempotent, total (the empty string gives the empty
\* string), and maps the diacritic and case variants of a word to the same
\* string: a string normalizes as the string of its base letters does.  As
\* claimed; a letter that NFKD does not decompose is dropped.
C24_NormalizeIdempotentVariants ==
    /\ normalized.done = 2 => normalized.twice = normalized.once
    /\ (normalized.done >= 1 /\ text_in = <<>>) => normalized.once = <<>>
    /\ normalized.done >= 1 => normalized.once = normalize_text(FlatMap(BaseChar, text_in))

\* C25: a matching invocation returns at most one record, that record is an
\* element of the record list it was given (the result is None or a position of
\* the list), and the invocation leaves the list and its records unchanged.
C25_ResultFromUnchangedList ==
    call.done =>
        /\ call.result \in 0..Len(call.records)
        /\ metadata_set = call.records

\* the invocation returned the second of two records
C25_Witness ==
    call.done /\ Len(call.records) = 2 /\ call.result = 2

\* C21: update_paths() recomputes the roots and restarts the subscriptions such
\* that a root that is missing or not both readable and writable is not
\* subscribed, while every accessible root is subscribed and delivers events.
\* As claimed; start() schedules the project file's directory whenever it
\* exists.
C21_OnlyAccessibleRootsSubscribed ==
    ops.last = "update_paths" =>
        \A r \in Roots :
            /\ seen_status[r] # "ok" => r \notin scheduled
            /\ seen_status[r] = "ok" => r \in LiveSubscriptions

\* C22: stop() is idempotent and returns in every state (never started, started
\* with no accessible root, running, already stopped): after it the watcher has
\* no live subscription, and a stop() that follows a stop() changes nothing.
C22_StopIdempotent ==
    ops.last = "stop" =>
        /\ observer # "alive"
        /\ LiveSubscriptions = {}
        /\ ops.prev = "stop" => ~ops.changed

\* stop() was called on a running watcher, and called again
C22_Witness ==
    /\ ops.prev = "stop" /\ ops.last = "stop"
    /\ observer = "stopped" /\ scheduled # {}

\* C31: the manual hint is cleared only by being applied: the hint goes from
\* set to cleared only in a step that renamed a PDF with the hint's identifier
\* given by the hint, never in a step that renamed a PDF the matching cascade
\* matched.  As claimed; the code clears the hint after every rename.
C31_HintClearedOnlyByUse ==
    [][(pmid_hint # 0 /\ pmid_hint' = 0) =>
          (last'.renamed /\ ~last'.engine /\ last'.id = pmid_hint)]_vars

\* C34: a candidate whose normalized form is the empty string (whitespace only,
\* or only characters the ASCII stripping drops) matches no record, at any
\* threshold, whatever the records' titles are.  As claimed; the code compares
\* the normalized strings, and two empty strings have ratio 1.0.
C34_EmptyCandidateNeverMatches ==
    (fbm.done /\ normalize_text(fbm.candidate) = <<>>) => fbm.result = 0

\* the observers that are alive: the one FileMonitor refers to, and one it has
\* replaced without stopping it
AliveObservers ==
    (IF observer = "alive" THEN 1 ELSE 0) + (IF orphaned THEN 1 ELSE 0)

\* C35: after any sequence of FileMonitor construction, start(), stop() and
\* update_paths(), at most one filesystem observer is alive, so no notification
\* is delivered to the event handler by two observers.
C35_AtMostOneObserver == AliveObservers <= 1

\* C35 witness: start() or update_paths() on a running watcher, as in
\* Controller.__init__, has replaced a running observer by a running one
C35_Witness ==
    /\ ops.last \in {"start", "update_paths"}
    /\ ops.changed
    /\ observer = "alive"

\* C33: a new-download sequence uses one configuration for its whole duration:
\* if the move/copy mode is changed while a sequence is between its first
\* existence check and its file operation, the file is still filed with the mode
\* that was configured when the sequence began.  As claimed; the code reads the
\* mode and the PDF folder just before the file operation.
C33_ConfigurationOfSequenceStart ==
    [][\A t \in Threads :
          (pc[t] = "op" /\ pc'[t] = "emit") =>
              dl'[src_path[t]] = SourceAfter(began_with, dl[src_path[t]])]_vars

\* C32: PdfFolderChanged is emitted only for notifications whose source or
\* destination lies inside the configured PDF root, never for a path that only
\* shares the root's string prefix, and for no path while the PDF root is not
\* configured; only files inside the downloads root enter the new-download
\* pipeline.  As claimed; the code tests the paths with str.startswith.
C32_OnlyPathsInsideRoots ==
    /\ notified.outcome = "folder" =>
          \/ InsideRoot(notified.src, notified.pdf_root)
          \/ notified.kind = "moved" /\ InsideRoot(notified.dest, notified.pdf_root)
    /\ notified.outcome = "download" =>
          InsideRoot(notified.src, notified.downloads_root)

\* C37: the sidecar path is one function of the PDF path, the same for the
\* engine's write, the engine's read and the consumer's removal, so that the
\* sidecar read or removed for a PDF is the one written for that PDF and two
\* distinct PDFs never share a sidecar.  As claimed; the code drops the PDF's
\* extension, whatever its case.
C37_OneSidecarPerPdf ==
    /\ \A q \in PdfPaths :
          /\ written_cache_file_path(q) = read_cache_file_path(q)
          /\ read_cache_file_path(q) = title_file_path(q)
    /\ last_access.writer \in {<<>>, last_access.pdf}

\* the PDF folder is as the last scan left it
JustScanned ==
    /\ last.kind = "scan"
    /\ sidecar = last.sidecarLeft
    /\ current_name(pdf, tag) = IF last.renamed THEN tagged_name(last.id, pdf.name)
                                ELSE last.name

\* C36: scanning the PDF folder is idempotent for fixed metadata: a scan that
\* directly follows a scan leaves the file names and the sidecars as they are
\* and invokes content extraction for no PDF.  As claimed; a PDF matched to a
\* record without identifier loses its sidecar and keeps its name.
C36_ScanIdempotent ==
    [][(JustScanned /\ process_existing_pdfs) =>
          (tag' = tag /\ sidecar' = sidecar /\ ~last'.extractCalled)]_vars

====
